---------------------------- MODULE Spec2Model ----------------------------
(***************************************************************************)
(* Model of the Identiverse 2025 calendar generator core:                  *)
(*   utils.js          parseLasVegasTime, formatDescription, generateUID   *)
(*   dataProcessor.js  DataProcessor.processSessionData                    *)
(*   icsGenerator.js   ICSGenerator.createCalendar, foldLine               *)
(* JavaScript strings are TLA+ strings (TLC evaluates Len, SubSeq and \o   *)
(* on them); a character is a string of length 1.                          *)
(***************************************************************************)
EXTENDS Integers, Sequences, FiniteSets, TLC

VARIABLES
    pc,           \* position of main() in index.js: "scrape", "processed", "done", "aborted"
    rawSessions,  \* rawSessions of index.js: the scraper's records so far
    sessions,     \* the list returned by processSessionData
    icsContent,   \* the lines createCalendar has collected when it joins them
    groupedSessions, \* groupedSessions of processAll: date key to list of sessions
    call          \* one direct invocation of an exported function: arguments, locals and result

vars == <<pc, rawSessions, sessions, icsContent, groupedSessions, call>>

-----------------------------------------------------------------------------
(* Bounds of the model                                                     *)

\* most raw records the scraper delivers in one run
MaxSessions == 2

-----------------------------------------------------------------------------
(* String primitives of JavaScript                                         *)

\* the characters of s at positions from..to (1-based, inclusive), clamped to s
\* as String.prototype.substring clamps
Slice(s, from, to) ==
    LET a == IF from < 1 THEN 1 ELSE from
        b == IF to > Len(s) THEN Len(s) ELSE to
    IN IF a > b THEN "" ELSE SubSeq(s, a, b)

\* s[i], "" when i is outside s
At(s, i) == Slice(s, i, i)

DigitChars == "0123456789"

LowerChars == "abcdefghijklmnopqrstuvwxyz"

UpperChars == "ABCDEFGHIJKLMNOPQRSTUVWXYZ"

\* 1-based index of character c in the table s (no character twice), 0 when absent
PosIn(c, s) ==
    IF \E i \in 1..Len(s) : At(s, i) = c
    THEN CHOOSE i \in 1..Len(s) : At(s, i) = c
    ELSE 0

CharsOf(s) == {At(s, i) : i \in 1..Len(s)}

DigitSet == CharsOf(DigitChars)

LowerSet == CharsOf(LowerChars)

UpperSet == CharsOf(UpperChars)

DigitValue == [c \in DigitSet |-> PosIn(c, DigitChars) - 1]

UpperOf == [c \in LowerSet |-> At(UpperChars, PosIn(c, LowerChars))]

IsDigit(c) == c \in DigitSet

IsAlnum(c) == c \in DigitSet \/ c \in LowerSet \/ c \in UpperSet

\* \s of a regular expression, and what String.prototype.trim removes
IsSpace(c) == c \in {" ", "\t", "\n", "\r"}

UpperChar(c) == IF c \in LowerSet THEN UpperOf[c] ELSE c

RECURSIVE UpperFrom(_, _)
UpperFrom(s, i) ==
    IF i > Len(s) THEN "" ELSE UpperChar(At(s, i)) \o UpperFrom(s, i + 1)

\* String.prototype.toUpperCase
ToUpperCase(s) == UpperFrom(s, 1)

\* String.prototype.includes
Includes(s, sub) ==
    \E i \in 1..(Len(s) - Len(sub) + 1) : SubSeq(s, i, i + Len(sub) - 1) = sub

\* String.prototype.indexOf from position `from` (1-based), 0 when absent
IndexFrom(s, sub, from) ==
    LET hits == {i \in from..(Len(s) - Len(sub) + 1) : SubSeq(s, i, i + Len(sub) - 1) = sub}
    IN IF hits = {} THEN 0 ELSE CHOOSE i \in hits : \A j \in hits : i <= j

\* String.prototype.trim
Trim(s) ==
    LET keep == {i \in 1..Len(s) : ~IsSpace(At(s, i))}
    IN IF keep = {} THEN ""
       ELSE SubSeq(s, CHOOSE i \in keep : \A j \in keep : i <= j,
                      CHOOSE i \in keep : \A j \in keep : j <= i)

\* end of the run of digits of s that starts at position i
RECURSIVE DigitRunEnd(_, _)
DigitRunEnd(s, i) ==
    IF i < Len(s) /\ IsDigit(At(s, i + 1)) THEN DigitRunEnd(s, i + 1) ELSE i

\* end of the run of white space of s that starts after position i
RECURSIVE SpaceRunEnd(_, _)
SpaceRunEnd(s, i) ==
    IF i < Len(s) /\ IsSpace(At(s, i + 1)) THEN SpaceRunEnd(s, i + 1) ELSE i

\* the value of the decimal digits of s at positions 1..n
RECURSIVE DigitsValue(_, _)
DigitsValue(s, n) ==
    IF n = 0 THEN 0 ELSE DigitsValue(s, n - 1) * 10 + DigitValue[At(s, n)]

\* parseInt(s, 10) of a string of decimal digits
ParseInt(s) == DigitsValue(s, Len(s))

\* decimal digits of n >= 0, left-padded with zeros to at least `width` characters
RECURSIVE PadNum(_, _)
PadNum(n, width) ==
    IF n < 10 /\ width <= 1 THEN At(DigitChars, n + 1)
    ELSE PadNum(n \div 10, width - 1) \o At(DigitChars, (n % 10) + 1)

-----------------------------------------------------------------------------
(* luxon DateTime in the fixed zone UTC-7, as utils.js uses it.            *)
(* kind: "valid", "invalid" (luxon's invalid DateTime) or "null";          *)
(* ts: minutes of local wall-clock time since 2025-01-01T00:00.            *)

YEAR == 2025

DaysInMonth == <<31, 28, 31, 30, 31, 30, 31, 31, 30, 31, 30, 31>>

\* days of the year before the first day of each month
DaysBeforeMonth ==
    [m \in 1..12 |-> IF m = 1 THEN 0
                     ELSE LET f[k \in 1..12] == IF k = 1 THEN 0 ELSE f[k - 1] + DaysInMonth[k - 1]
                          IN f[m]]

DaysBefore(month) == DaysBeforeMonth[month]

InvalidDateTime == [kind |-> "invalid", ts |-> 0]

NullDateTime == [kind |-> "null", ts |-> 0]

ValidDateTime(ts) == [kind |-> "valid", ts |-> ts]

\* DateTime.fromObject({year: 2025, month, day, hour, minute}, {zone: 'UTC-7'}):
\* a unit out of range gives an invalid DateTime; hour 24 with minute 0 is
\* accepted as the next day's midnight
FromObject(month, day, hour, minute) ==
    IF /\ month \in 1..12
       /\ day >= 1 /\ day <= DaysInMonth[month]
       /\ (hour \in 0..23 \/ (hour = 24 /\ minute = 0))
       /\ minute \in 0..59
    THEN ValidDateTime(((DaysBefore(month) + day - 1) * 24 + hour) * 60 + minute)
    ELSE InvalidDateTime

\* DateTime#plus({hours}): an invalid DateTime stays invalid
PlusHours(dt, hours) ==
    IF dt.kind = "valid" THEN ValidDateTime(dt.ts + hours * 60) ELSE dt

\* a < b on DateTime objects compares valueOf(), which is NaN when invalid
DateTimeLess(a, b) == a.kind = "valid" /\ b.kind = "valid" /\ a.ts < b.ts

DayOfYear(dt) == dt.ts \div 1440

MonthOf(dt) ==
    CHOOSE m \in 1..12 : DaysBefore(m) <= DayOfYear(dt) /\ DayOfYear(dt) < DaysBefore(m) + DaysInMonth[m]

DayOf(dt) == DayOfYear(dt) - DaysBefore(MonthOf(dt)) + 1

HourOf(dt) == (dt.ts % 1440) \div 60

MinuteOf(dt) == dt.ts % 60

INVALID == "Invalid DateTime"

\* DateTime#toFormat('yyyyMMdd')
ToFormatDate(dt) ==
    IF dt.kind = "valid"
    THEN PadNum(YEAR, 4) \o PadNum(MonthOf(dt), 2) \o PadNum(DayOf(dt), 2)
    ELSE INVALID

\* DateTime#toFormat('HHmmss')
ToFormatTime(dt) ==
    IF dt.kind = "valid"
    THEN PadNum(HourOf(dt), 2) \o PadNum(MinuteOf(dt), 2) \o "00"
    ELSE INVALID

-----------------------------------------------------------------------------
(* utils.js: parseLasVegasTime                                             *)

\* lines 67-78: the month of the date label (case-insensitive substring match)
MonthOfUpper_DefaultsToMay(up) ==
    IF Includes(up, "JUNE") \/ Includes(up, "JUN") THEN 6
    ELSE IF Includes(up, "JULY") \/ Includes(up, "JUL") THEN 7
    ELSE 5

MonthOfUpper(up) ==
    IF Includes(up, "JUNE") \/ Includes(up, "JUN") THEN 6
    ELSE IF Includes(up, "JULY") \/ Includes(up, "JUL") THEN 7
    ELSE IF Includes(up, "MAY") THEN 5
    ELSE 6

\* lines 67-78: the /i flag of the matches, as an upper-cased copy of dateStr
ParseMonth(dateStr) == MonthOfUpper(ToUpperCase(dateStr))

\* position of the first decimal digit of s, 0 when it has none
FirstDigit(s) ==
    LET ds == {i \in 1..Len(s) : IsDigit(At(s, i))}
    IN IF ds = {} THEN 0 ELSE CHOOSE i \in ds : \A j \in ds : i <= j

\* lines 80-88: the day of the date label, dateStr.match(/\d+/)
DayAt(dateStr, i) ==
    IF i > 0 THEN ParseInt(SubSeq(dateStr, i, DigitRunEnd(dateStr, i))) ELSE 1

\* lines 80-88, from the position of the match on
ParseDay(dateStr) == DayAt(dateStr, FirstDigit(dateStr))

\* lines 94-96: timeStr.split('-').map(trim), or [timeStr.trim(), ''] without a
\* hyphen; h1 and h2 are the positions of the first two hyphens, 0 when absent
SplitAt(timeStr, h1, h2) ==
    IF h1 = 0 THEN <<Trim(timeStr), "">>
    ELSE <<Trim(SubSeq(timeStr, 1, h1 - 1)),
           Trim(SubSeq(timeStr, h1 + 1, IF h2 = 0 THEN Len(timeStr) ELSE h2 - 1))>>

\* position of the second hyphen of timeStr given the first, 0 when there is none
SecondHyphen(timeStr, h1) == IF h1 = 0 THEN 0 ELSE IndexFrom(timeStr, "-", h1 + 1)

SplitAtFirst(timeStr, h1) == SplitAt(timeStr, h1, SecondHyphen(timeStr, h1))

\* lines 94-96, the first two elements of the array
SplitTimeParts(timeStr) == SplitAtFirst(timeStr, IndexFrom(timeStr, "-", 1))

\* line 118, (AM|PM|am|pm)?: the marker right after position e3
MarkerAt(s, e3) ==
    IF Slice(s, e3 + 1, e3 + 2) \in {"AM", "PM", "am", "pm"} THEN Slice(s, e3 + 1, e3 + 2) ELSE ""

\* line 118, (?::(\d+))?: the end of the minutes after the hour that ends at e1,
\* e1 itself when the group does not take part
MinutesEnd(s, e1) ==
    IF e1 + 2 <= Len(s) /\ At(s, e1 + 1) = ":" /\ IsDigit(At(s, e1 + 2))
    THEN DigitRunEnd(s, e1 + 2)
    ELSE e1

\* line 118: the groups of the match whose hour is s[i..e1] and whose minutes end at e2
MatchGroups(s, i, e1, e2) ==
    [matched |-> TRUE,
     g1 |-> SubSeq(s, i, e1),
     g2 |-> IF e2 > e1 THEN SubSeq(s, e1 + 2, e2) ELSE "",
     g3 |-> MarkerAt(s, SpaceRunEnd(s, e2))]

MatchHour(s, i, e1) == MatchGroups(s, i, e1, MinutesEnd(s, e1))

\* line 118: the match that starts at the first digit i of s, none when i = 0
MatchAt(s, i) ==
    IF i = 0 THEN [matched |-> FALSE, g1 |-> "", g2 |-> "", g3 |-> ""]
    ELSE MatchHour(s, i, DigitRunEnd(s, i))

\* line 118: timeStr.match(/(\d+)(?::(\d+))?\s*(AM|PM|am|pm)?/); a group that
\* did not take part in the match is ""
TimeMatch(s) == MatchAt(s, FirstDigit(s))

\* a variant of lines 133-138 that never adds the 12 hours of the afternoon
AdjustHours_NeverPM(hours, isPM) ==
    IF ~isPM /\ hours = 12 THEN 0 ELSE hours

\* lines 133-138: 12-hour to 24-hour
AdjustHours(hours, isPM) ==
    IF isPM /\ hours < 12 THEN hours + 12
    ELSE IF ~isPM /\ hours = 12 THEN 0
    ELSE hours

\* lines 108-131: hours, minutes and isPM of one part before the 24-hour adjustment
ClockOf(s, tm) ==
    [hours   |-> IF tm.matched THEN ParseInt(tm.g1) ELSE 12,
     minutes |-> IF tm.matched THEN ParseInt(tm.g2) ELSE 0,
     isPM    |-> Includes(ToUpperCase(s), "PM")
                   \/ (tm.matched /\ ToUpperCase(tm.g3) = "PM")]

\* lines 108-131
RawClock(s) == ClockOf(s, TimeMatch(s))

\* line 140: the DateTime of a clock reading c on the parsed day
FromClock(month, day, c) ==
    FromObject(month, day, AdjustHours(c.hours, c.isPM), c.minutes)

\* lines 98-145: parseTime, the closure over the parsed month and day
ParseTime(s, month, day) ==
    IF s = "" THEN FromObject(month, day, 12, 0)
    ELSE FromClock(month, day, RawClock(s))

\* line 149: whether the label has an end part
HasEndPart(timeStr) == SplitTimeParts(timeStr)[2] # ""

\* line 150: the end part parsed on its own, before the sanity check
NaiveEnd(dateStr, timeStr) ==
    ParseTime(SplitTimeParts(timeStr)[2], ParseMonth(dateStr), ParseDay(dateStr))

\* lines 157-161: the sanity check on the end instant
SanityCheck(startTime, endTime) ==
    IF DateTimeLess(endTime, startTime) THEN PlusHours(endTime, 12) ELSE endTime

\* a variant of lines 149-155 that parses the end part even when it is empty
EndTime_AlwaysParsed(startTime, endPart, month, day) == ParseTime(endPart, month, day)

\* lines 149-155: the end instant before the sanity check
EndTime(startTime, endPart, month, day) ==
    IF endPart # "" THEN ParseTime(endPart, month, day) ELSE PlusHours(startTime, 1)

\* lines 149-164: the returned object, given the parsed start
RangeFrom(startTime, endPart, month, day) ==
    [start |-> startTime, end |-> SanityCheck(startTime, EndTime(startTime, endPart, month, day))]

\* lines 147-164
ParseRange(month, day, timeParts) ==
    RangeFrom(ParseTime(timeParts[1], month, day), timeParts[2], month, day)

\* lines 60-171, for string arguments (no statement of the try block throws then)
ParseLasVegasTime(dateStr, timeStr) ==
    ParseRange(ParseMonth(dateStr), ParseDay(dateStr), SplitTimeParts(timeStr))

-----------------------------------------------------------------------------
(* Direct calls of parseLasVegasTime                                        *)

DateLabels ==
    {"JUNE 3", "June 5", "jun 30", "JULY 31", "MAY 30", "Tuesday", "JUNE 31", "",
     "JUNE 5", "Wed, Jul 2 2025"}

TimePartLabels ==
    {"9:30 AM", "11:00 AM", "11:20 AM", "1:30 PM", "1:30", "12 PM", "12:00 AM",
     "11:00 PM", "11:30 PM", "1:00 AM", "9am", "7 pm", "12:30", "25:00", "9:75 AM",
     "24:00", "TBD", ""}

TimeLabels ==
    TimePartLabels
      \cup {s \o " - " \o e : s \in TimePartLabels, e \in TimePartLabels}
      \cup {s \o "-" \o e \o " - 5 PM" : s \in {"9:30 AM", "11:00 PM"}, e \in {"", "10 AM"}}
      \cup {"9:30 AM to 11:20 AM", "  8 AM  -  7 PM  "}

NoRange == [start |-> NullDateTime, end |-> NullDateTime]

IdleCall == [fn |-> "none"]

TimeInit ==
    /\ pc = "scrape" /\ rawSessions = <<>> /\ sessions = <<>> /\ icsContent = <<>>
    /\ groupedSessions = <<>>
    /\ \E d \in DateLabels, t \in TimeLabels :
         call = [fn |-> "parseLasVegasTime", dateStr |-> d, timeStr |-> t,
                 returned |-> FALSE, ret |-> NoRange]

CallParseLasVegasTime ==
    /\ call.fn = "parseLasVegasTime" /\ ~call.returned
    /\ call' = [call EXCEPT !.returned = TRUE,
                            !.ret = ParseLasVegasTime(call.dateStr, call.timeStr)]
    /\ UNCHANGED <<pc, rawSessions, sessions, icsContent, groupedSessions>>

TimeNext == CallParseLasVegasTime

SpecTime == TimeInit /\ [][TimeNext]_vars

TimeReturned == call.fn = "parseLasVegasTime" /\ call.returned

-----------------------------------------------------------------------------
(* Claims about parseLasVegasTime, under SpecTime                           *)

\* a part "h[:m] AM|PM" with an explicit marker, hour 1..12 and minute 0..59
WellFormedPart(s) ==
    LET tm == TimeMatch(s)
    IN /\ tm.matched /\ tm.g3 # ""
       /\ ParseInt(tm.g1) \in 1..12
       /\ ParseInt(tm.g2) \in 0..59

\* the text after the first hyphen of the label, "" when there is no hyphen
AfterHyphen(timeStr) ==
    LET h == IndexFrom(timeStr, "-", 1)
    IN IF h = 0 THEN "" ELSE Slice(timeStr, h + 1, Len(timeStr))

BothValid(r) == r.start.kind = "valid" /\ r.end.kind = "valid"

\* C3: for a label whose start part and end part both parse and both carry an
\* explicit AM or PM marker, the returned range has end > start (strictly).
C3_EndAfterStart ==
    (/\ TimeReturned
     /\ FromObject(ParseMonth(call.dateStr), ParseDay(call.dateStr), 0, 0).kind = "valid"
     /\ WellFormedPart(SplitTimeParts(call.timeStr)[1])
     /\ WellFormedPart(SplitTimeParts(call.timeStr)[2]))
    => (BothValid(call.ret) /\ call.ret.end.ts > call.ret.start.ts)

\* C4 as claimed: whenever the independently parsed end is less than or equal to
\* the parsed start (equality included), the returned end is the parsed end
\* plus exactly 12 hours.
C4_Original_LeqGetsTwelveHours ==
    (/\ TimeReturned /\ HasEndPart(call.timeStr)
     /\ call.ret.start.kind = "valid"
     /\ NaiveEnd(call.dateStr, call.timeStr).kind = "valid"
     /\ NaiveEnd(call.dateStr, call.timeStr).ts <= call.ret.start.ts)
    => call.ret.end = ValidDateTime(NaiveEnd(call.dateStr, call.timeStr).ts + 720)

\* C4, what lines 157-161 do: whenever the independently parsed end is strictly
\* earlier than the parsed start, the returned end is the parsed end plus exactly
\* 12 hours; when it is equal to or later than the start it is returned unchanged.
C4_StrictlyEarlierGetsTwelveHours ==
    (/\ TimeReturned /\ HasEndPart(call.timeStr)
     /\ call.ret.start.kind = "valid"
     /\ NaiveEnd(call.dateStr, call.timeStr).kind = "valid")
    => LET naive == NaiveEnd(call.dateStr, call.timeStr)
       IN /\ naive.ts < call.ret.start.ts => call.ret.end = ValidDateTime(naive.ts + 720)
          /\ naive.ts >= call.ret.start.ts => call.ret.end = naive

\* C4 witness: a returned call whose parsed end was earlier than its start and
\* came back 12 hours later
C4_Witness ==
    /\ TimeReturned /\ HasEndPart(call.timeStr)
    /\ call.ret.start.kind = "valid"
    /\ NaiveEnd(call.dateStr, call.timeStr).kind = "valid"
    /\ NaiveEnd(call.dateStr, call.timeStr).ts < call.ret.start.ts
    /\ call.ret.end.kind = "valid"
    /\ call.ret.end.ts = NaiveEnd(call.dateStr, call.timeStr).ts + 720

\* C5: for a label with no end part (no hyphen, or nothing after the hyphen) the
\* returned end is the start plus exactly one hour.
C5_MissingEndIsOneHour ==
    (TimeReturned /\ Trim(AfterHyphen(call.timeStr)) = "")
    => /\ call.ret.end = PlusHours(call.ret.start, 1)
       /\ call.ret.start.kind = "valid" => call.ret.end = ValidDateTime(call.ret.start.ts + 60)

\* C5 witness: a returned call for a label with a hyphen and nothing after it
C5_Witness ==
    /\ TimeReturned
    /\ IndexFrom(call.timeStr, "-", 1) > 0
    /\ Trim(AfterHyphen(call.timeStr)) = ""
    /\ call.ret.start.kind = "valid"
    /\ call.ret.end.kind = "valid"
    /\ call.ret.end.ts = call.ret.start.ts + 60

-----------------------------------------------------------------------------
(* utils.js: generateUID                                                    *)

\* the characters with codes 32..95
AsciiChars ==
    " !\"#$%&'()*+,-./0123456789:;<=>?@ABCDEFGHIJKLMNOPQRSTUVWXYZ[\\]^_"

\* the characters with codes 123..126
BraceChars == "{|}~"

\* String.prototype.charCodeAt for the characters of the model
CharCodeOf ==
    [c \in CharsOf(AsciiChars) \cup LowerSet \cup CharsOf(BraceChars) \cup {"\t", "\n", "\r"} |->
       IF c = "\n" THEN 10
       ELSE IF c = "\t" THEN 9
       ELSE IF c = "\r" THEN 13
       ELSE IF c \in LowerSet THEN 96 + PosIn(c, LowerChars)
       ELSE IF c \in CharsOf(BraceChars) THEN 122 + PosIn(c, BraceChars)
       ELSE 31 + PosIn(c, AsciiChars)]

CharCode(c) == CharCodeOf[c]

\* line 246: title.replace(/[^a-zA-Z0-9]/g, ''), over the positions lo..hi of s
\* (the range is halved so that the evaluation stays shallow)
RECURSIVE StripNonAlnum(_, _, _)
StripNonAlnum(s, lo, hi) ==
    IF lo > hi THEN ""
    ELSE IF lo = hi THEN (IF IsAlnum(At(s, lo)) THEN At(s, lo) ELSE "")
    ELSE StripNonAlnum(s, lo, (lo + hi) \div 2) \o StripNonAlnum(s, (lo + hi) \div 2 + 1, hi)

\* A 32-bit integer is kept as two 16-bit halves [hi, lo], so that no
\* intermediate value leaves the range of 32-bit integer arithmetic.
Word == 65536

\* a variant of lines 252-253 that adds titleHash to the shifted value
HashStep_ShiftAndAdd(h, code) ==
    [hi |-> (h.hi * 32 + h.hi + ((h.lo * 32 + h.lo + code) \div Word)) % Word,
     lo |-> (h.lo * 32 + h.lo + code) % Word]

\* line 252: ((titleHash << 5) - titleHash) + code, and line 253: titleHash & titleHash,
\* which wraps the sum to 32 bits
HashStep(h, code) ==
    LET lo32  == h.lo * 32
        shlLo == lo32 % Word
        shlHi == (h.hi * 32 + lo32 \div Word) % Word
        loSum == shlLo - h.lo + code
    IN [hi |-> (shlHi - h.hi + (loSum \div Word)) % Word, lo |-> loSum % Word]

\* lines 250-254: the loop over the characters lo..hi of the raw title, from
\* the value h; the left half's result is bound before the right half starts
\* from it, so the characters are taken strictly in order
RECURSIVE HashLoop(_, _, _, _)
HashLoop(title, lo, hi, h) ==
    IF lo > hi THEN h
    ELSE IF lo = hi THEN HashStep(h, CharCode(At(title, lo)))
    ELSE CHOOSE r \in {HashLoop(title, (lo + hi) \div 2 + 1, hi, left) :
                         left \in {HashLoop(title, lo, (lo + hi) \div 2, h)}} : TRUE

\* Math.abs of the signed 32-bit value
Abs32(h) ==
    IF h.hi >= Word \div 2
    THEN [hi |-> (Word - 1 - h.hi + (IF h.lo = 0 THEN 1 ELSE 0)) % Word,
          lo |-> (Word - h.lo) % Word]
    ELSE h

HexChars == "0123456789abcdef"

\* hexadecimal digits of n >= 0, left-padded with zeros to at least `width` characters
RECURSIVE HexNum(_, _)
HexNum(n, width) ==
    IF n < 16 /\ width <= 1 THEN At(HexChars, n + 1)
    ELSE HexNum(n \div 16, width - 1) \o At(HexChars, (n % 16) + 1)

\* Number.prototype.toString(16) of a non-negative 32-bit value: no leading zeros
ToHex(h) == IF h.hi = 0 THEN HexNum(h.lo, 1) ELSE HexNum(h.hi, 1) \o HexNum(h.lo, 4)

\* lines 250-255
TitleHash(title) == Slice(ToHex(Abs32(HashLoop(title, 1, Len(title), [hi |-> 0, lo |-> 0]))), 1, 8)

\* line 247; a null start gives the fixed date
UIDDateStr(startTime) ==
    IF startTime.kind = "null" THEN "20250603" ELSE ToFormatDate(startTime)

\* a variant of lines 239-258 without the branch of lines 241-243
GenerateUID_IgnoresSessionId(title, startTime, sessionId) ==
    "identiverse-2025-" \o Slice(StripNonAlnum(title, 1, Len(title)), 1, 30) \o "-"
      \o UIDDateStr(startTime) \o "-" \o TitleHash(title) \o "@identiverse.com"

\* lines 239-258; sessionId "" stands for null or undefined
GenerateUID(title, startTime, sessionId) ==
    IF sessionId # ""
    THEN "identiverse-2025-event-" \o sessionId \o "@identiverse.com"
    ELSE "identiverse-2025-" \o Slice(StripNonAlnum(title, 1, Len(title)), 1, 30) \o "-"
           \o UIDDateStr(startTime) \o "-" \o TitleHash(title) \o "@identiverse.com"

-----------------------------------------------------------------------------
(* Direct calls of generateUID                                              *)

UIDTitles ==
    {"", "A", "Registration", "Keynote: AI", "Welcome Reception",
     "Opening Keynote: The Future of Identity", "event", "R&D, Q/A; 100%!"}

UIDStarts ==
    {NullDateTime, InvalidDateTime}
      \cup {FromObject(6, d, h, 30) : d \in {3, 30}, h \in {0, 9, 23}}

UIDSessionIds == {"", "7", "1234", "0", "20250603"}

UIDInit ==
    /\ pc = "scrape" /\ rawSessions = <<>> /\ sessions = <<>> /\ icsContent = <<>>
    /\ groupedSessions = <<>>
    /\ \E t \in UIDTitles, st \in UIDStarts, id \in UIDSessionIds :
         call = [fn |-> "generateUID", title |-> t, startTime |-> st, sessionId |-> id,
                 returned |-> FALSE, ret |-> ""]

CallGenerateUID ==
    /\ call.fn = "generateUID" /\ ~call.returned
    /\ call' = [call EXCEPT !.returned = TRUE,
                            !.ret = GenerateUID(call.title, call.startTime, call.sessionId)]
    /\ UNCHANGED <<pc, rawSessions, sessions, icsContent, groupedSessions>>

UIDNext == CallGenerateUID

SpecUID == UIDInit /\ [][UIDNext]_vars

UIDReturned == call.fn = "generateUID" /\ call.returned

\* C1: for every non-empty source identifier s, generateUID(title, start, s) is
\* exactly 'identiverse-2025-event-' + s + '@identiverse.com', whatever the title
\* and the start instant (null included).
C1_SourceIdUID ==
    (UIDReturned /\ call.sessionId # "")
    => call.ret = "identiverse-2025-event-" \o call.sessionId \o "@identiverse.com"

\* C1 witness: a returned call with a source identifier, a non-empty title and a
\* null start
C1_Witness ==
    /\ UIDReturned /\ call.sessionId = "1234" /\ call.title = "Registration"
    /\ call.startTime.kind = "null"
    /\ call.ret = "identiverse-2025-event-1234@identiverse.com"

-----------------------------------------------------------------------------
(* utils.js: formatDescription                                              *)

\* the elements lo..hi of list with sep between them (the range is halved so
\* that the evaluation stays shallow)
RECURSIVE JoinRange(_, _, _, _)
JoinRange(list, lo, hi, sep) ==
    IF lo > hi THEN ""
    ELSE IF lo = hi THEN list[lo]
    ELSE JoinRange(list, lo, (lo + hi) \div 2, sep) \o sep
           \o JoinRange(list, (lo + hi) \div 2 + 1, hi, sep)

\* Array.prototype.join
Join(list, sep) == JoinRange(list, 1, Len(list), sep)

\* line 189: replace(/\s+/g, ' ')
RECURSIVE CollapseSpaces(_, _)
CollapseSpaces(s, i) ==
    IF i > Len(s) THEN ""
    ELSE IF IsSpace(At(s, i)) THEN " " \o CollapseSpaces(s, SpaceRunEnd(s, i) + 1)
    ELSE At(s, i) \o CollapseSpaces(s, i + 1)

IsUpper(c) == c \in UpperSet

IsLower(c) == c \in LowerSet

RECURSIVE LowerRunEnd(_, _)
LowerRunEnd(s, i) ==
    IF i < Len(s) /\ IsLower(At(s, i + 1)) THEN LowerRunEnd(s, i + 1) ELSE i

\* end of a match of [A-Z][a-z]+ at position p, 0 when there is none
CapWordEnd(s, p) ==
    IF IsUpper(At(s, p)) /\ IsLower(At(s, p + 1)) THEN LowerRunEnd(s, p + 1) ELSE 0

\* end of a match of (?: [A-Z][a-z]+) after position e, e itself when there is none
NextCapWord(s, e) ==
    IF At(s, e + 1) = " " /\ CapWordEnd(s, e + 2) > 0 THEN CapWordEnd(s, e + 2) ELSE e

\* end of a match of [A-Z][a-z]+(?: [A-Z][a-z]+){1,3} whose first word ends at
\* e1 and whose second ends at e2 (e2 = e1 when there is no second word)
NameRest(s, e1, e2) ==
    IF e2 = e1 THEN 0 ELSE NextCapWord(s, NextCapWord(s, e2))

NameFrom(s, e1) == IF e1 = 0 THEN 0 ELSE NameRest(s, e1, NextCapWord(s, e1))

\* line 192, group 1: the end of the name that starts at position p, 0 when none does
NameEnd(s, p) == NameFrom(s, CapWordEnd(s, p))

RECURSIVE NonCommaRunEnd(_, _)
NonCommaRunEnd(s, i) ==
    IF i < Len(s) /\ At(s, i + 1) # "," THEN NonCommaRunEnd(s, i + 1) ELSE i

\* a match of (?:,?\s+([^,]+))? after position e: the group's first and last
\* position, <<0, e>> when the group does not take part; c is the end of the
\* optional comma and w the end of the white space
DetailAt(s, e, c, w) ==
    IF w > c /\ w < Len(s) /\ At(s, w + 1) # ","
    THEN <<w + 1, NonCommaRunEnd(s, w + 1)>>
    ELSE <<0, e>>

DetailFrom(s, e, c) == DetailAt(s, e, c, SpaceRunEnd(s, c))

\* line 192, groups 2 and 3, after position e
DetailGroup(s, e) == DetailFrom(s, e, IF At(s, e + 1) = "," THEN e + 1 ELSE e)

\* lines 192-209: the exec loop of speakerPattern over speakerInfo from position p
\* (defined after its parts)
RECURSIVE CleanedSpeakers(_, _)

\* lines 201-202: the trimmed text of a detail group, nothing when it took no part
DetailTexts(s, d) == IF d[1] = 0 THEN <<>> ELSE <<Trim(Slice(s, d[1], d[2]))>>

\* lines 204-208: the entry pushed for one match
SpeakerEntry(name, details) ==
    IF details = <<>> THEN name ELSE name \o ", " \o Join(details, ", ")

\* lines 196-209: one match with groups s[p..e], d1 and d2, then the rest of the loop
SpeakerMatch(s, p, e, d1, d2) ==
    <<SpeakerEntry(Trim(Slice(s, p, e)), DetailTexts(s, d1) \o DetailTexts(s, d2))>>
      \o CleanedSpeakers(s, d2[2] + 1)

SpeakerDetails(s, p, e, d1) ==
    SpeakerMatch(s, p, e, d1, IF d1[1] = 0 THEN <<0, e>> ELSE DetailGroup(s, d1[2]))

\* line 196: exec at position p, where a name ends at e (0 when none starts there)
SpeakersAt(s, p, e) ==
    IF e = 0 THEN CleanedSpeakers(s, p + 1) ELSE SpeakerDetails(s, p, e, DetailGroup(s, e))

CleanedSpeakers(s, p) ==
    IF p > Len(s) THEN <<>> ELSE SpeakersAt(s, p, NameEnd(s, p))

\* lines 211-216: the fall-back to the original list and the pushed part
SpeakersText(speakers, cleanedSpeakers) ==
    "\nSpeakers: " \o Join(IF cleanedSpeakers = <<>> THEN speakers ELSE cleanedSpeakers, " | ")

\* lines 186-217
SpeakersPart(speakers) ==
    SpeakersText(speakers, CleanedSpeakers(CollapseSpaces(Join(speakers, " "), 1), 1))

TimezoneNote == "\nAll times are in Pacific Daylight Time (PDT / UTC-7)"

\* a variant of lines 178-227 without the note of line 224
FormatDescription_WithoutNote(session) ==
    Join((IF session.description # "" THEN <<session.description>> ELSE <<>>)
           \o (IF Len(session.speakers) > 0 THEN <<SpeakersPart(session.speakers)>> ELSE <<>>)
           \o (IF session.type # "" THEN <<"\nSession Type: " \o session.type>> ELSE <<>>),
         "\n")

\* lines 178-227, for a session whose speakers field is an array
FormatDescription(session) ==
    Join((IF session.description # "" THEN <<session.description>> ELSE <<>>)
           \o (IF Len(session.speakers) > 0 THEN <<SpeakersPart(session.speakers)>> ELSE <<>>)
           \o (IF session.type # "" THEN <<"\nSession Type: " \o session.type>> ELSE <<>>)
           \o <<TimezoneNote>>,
         "\n")

-----------------------------------------------------------------------------
(* dataProcessor.js: DataProcessor.processSessionData                       *)
(* A raw record has the fields of the scraper's session objects; "" stands  *)
(* for an empty or absent string. Its field malformed names a value that    *)
(* is not of the type the code expects:                                     *)
(*   "record"   the array element itself is null                            *)
(*   "date"     date is a number (dateStr.match is not a function)          *)
(*   "title"    title is a number (title.replace is not a function)         *)
(*   "speakers" speakers is a non-empty string (speakers.join is not a      *)
(*              function)                                                   *)

\* a variant of the match whose group takes the rest of the URL, /idvid=(.+)/
IdvidAt_RestOfUrl(detailsUrl, i) ==
    IF i = 0 THEN "" ELSE Slice(detailsUrl, i + 6, Len(detailsUrl))

\* lines 44-49 and 67-72: detailsUrl.match(/idvid=(\d+)/)[1] at the match
\* position i, "" (null) when i = 0
IdvidAt(detailsUrl, i) ==
    IF i = 0 THEN "" ELSE Slice(detailsUrl, i + 6, DigitRunEnd(detailsUrl, i + 6))

\* the first position of detailsUrl where /idvid=(\d+)/ matches, 0 when none does
IdvidMatch(detailsUrl, hits) ==
    IF hits = {} THEN 0 ELSE CHOOSE k \in hits : \A j \in hits : k <= j

\* a variant of lines 67-72 that looks only at the first 'idvid=' of the URL
ExtractSessionId_FirstKeyOnly(detailsUrl) ==
    IdvidAt(detailsUrl,
            IdvidMatch(detailsUrl,
                       {i \in 1..Len(detailsUrl) : Slice(detailsUrl, i, i + 5) = "idvid="}))

\* lines 67-72
ExtractSessionId(detailsUrl) ==
    IdvidAt(detailsUrl,
            IdvidMatch(detailsUrl,
                       {i \in 1..Len(detailsUrl) :
                          Slice(detailsUrl, i, i + 5) = "idvid=" /\ IsDigit(At(detailsUrl, i + 6))}))

\* a variant in which an invalid DateTime counts as falsy
Truthy_ValidOnly(dt) == dt.kind = "valid"

\* a JavaScript object is truthy, null is not
Truthy(dt) == dt.kind # "null"

\* lines 37-40: new Date() set to 12:00 and 13:00, a JavaScript Date and no DateTime
DefaultStart == [kind |-> "jsdate", ts |-> 12 * 60]

DefaultEnd == [kind |-> "jsdate", ts |-> 13 * 60]

Returned(v) == [threw |-> FALSE, value |-> v]

Thrown == [threw |-> TRUE, value |-> <<>>]

\* lines 51-62 and 75-84: the session object built from a raw record
SessionObject(session, title, startTime, endTime, sessionId, isDefaultTime) ==
    [title |-> title,
     description |-> FormatDescription(session),
     location |-> IF session.location # "" THEN session.location ELSE "TBD",
     startTime |-> startTime, endTime |-> endTime,
     uid |-> GenerateUID(title, startTime, sessionId),
     type |-> IF session.type # "" THEN session.type ELSE "Session",
     sessionId |-> sessionId,
     isDefaultTime |-> isDefaultTime]   \* absent (undefined) in lines 75-84

\* lines 34-86: the inner try block after parseLasVegasTime has returned range;
\* value is <<>> for null and <<object>> for a processed session
AfterParse(session, title, range, sessionId) ==
    IF session.malformed = "speakers" THEN Thrown                   \* lines 54, 77
    ELSE IF ~Truthy(range.start) \/ ~Truthy(range.end)
    THEN IF sessionId = "" THEN Thrown                              \* line 58: defaultStart.toFormat
         ELSE Returned(<<SessionObject(session, title, DefaultStart, DefaultEnd, sessionId, TRUE)>>)
    ELSE IF session.malformed = "title" /\ sessionId = "" THEN Thrown  \* line 81
    ELSE Returned(<<SessionObject(session, title, range.start, range.end, sessionId, FALSE)>>)

\* lines 30-86: the body of the inner try block
InnerBody(session, date, time, title) ==
    IF session.malformed = "date" THEN Thrown                       \* line 31
    ELSE AfterParse(session, title, ParseLasVegasTime(date, time),
                    ExtractSessionId(session.detailsUrl))

\* lines 87-90 and 91-94: a catch block that logs and returns null
Catch(r) == IF r.threw THEN Returned(<<>>) ELSE r

\* lines 29-90: the inner try with its catch (timeError)
InnerTry(session, date, time, title) == Catch(InnerBody(session, date, time, title))

\* a variant of lines 20-90 without the skip of line 24
WithTitle_NeverSkips(session, title) ==
    InnerTry(session, session.date, session.time, title)

\* a variant of lines 20-90 whose line 24 skips only when both labels are empty
WithTitle_SkipsWhenBothEmpty(session, title) ==
    IF session.date = "" /\ session.time = ""
    THEN Returned(<<>>)
    ELSE InnerTry(session, session.date, session.time, title)

\* lines 20-90: the outer try block once title is bound
WithTitle(session, title) ==
    IF session.date = "" \/ session.time = ""                       \* line 24
    THEN Returned(<<>>)
    ELSE InnerTry(session, session.date, session.time, title)

\* lines 18-90: the body of the outer try block
OuterBody(session) ==
    IF session.malformed = "record" THEN Thrown                     \* line 19
    ELSE WithTitle(session, IF session.title # "" THEN session.title ELSE "Untitled Session")

\* a variant of lines 16-95 without the outer catch
MapCallback_NoCatch(session) == OuterBody(session)

\* lines 16-95: the map callback, the outer try with its catch (error)
MapCallback(session) == Catch(OuterBody(session))

\* line 16: rawSessions.map(callback) from index i on, as the callbacks' outcomes
RECURSIVE MapFrom(_, _)
MapFrom(raws, i) ==
    IF i > Len(raws) THEN <<>> ELSE <<MapCallback(raws[i])>> \o MapFrom(raws, i + 1)

\* line 95: .filter(Boolean) over the callbacks' values from index i on
RECURSIVE FilterFrom(_, _)
FilterFrom(results, i) ==
    IF i > Len(results) THEN <<>> ELSE results[i].value \o FilterFrom(results, i + 1)

\* a variant of lines 16-95 whose filter stops at the first null
MapFilter_StopsAtFirstNull(results) ==
    IF \E i \in 1..Len(results) : results[i].threw
    THEN Thrown
    ELSE Returned(FilterFrom(SubSeq(results, 1,
                                    Cardinality({i \in 1..Len(results) :
                                                   \A j \in 1..i : results[j].value # <<>>})),
                             1))

\* lines 16-95 given the callbacks' outcomes: an exception that leaves a
\* callback leaves processSessionData
MapFilter(results) ==
    IF \E i \in 1..Len(results) : results[i].threw
    THEN Thrown
    ELSE Returned(FilterFrom(results, 1))

\* lines 13-96
ProcessSessionData(raws) == MapFilter(MapFrom(raws, 1))

-----------------------------------------------------------------------------
(* dataProcessor.js: DataProcessor.groupSessionsByDate                      *)
(* The object grouped is a function from its keys to the lists pushed under *)
(* them.                                                                    *)

\* line 107: DateTime#toFormat('yyyy-MM-dd')
ToFormatDashedDate(dt) ==
    IF dt.kind = "valid"
    THEN PadNum(YEAR, 4) \o "-" \o PadNum(MonthOf(dt), 2) \o "-" \o PadNum(DayOf(dt), 2)
    ELSE INVALID

\* lines 109-113: create the list of the key if needed, then push
PushSession(grouped, dateStr, session) ==
    IF dateStr \in DOMAIN grouped
    THEN [grouped EXCEPT ![dateStr] = Append(@, session)]
    ELSE [k \in DOMAIN grouped \cup {dateStr} |->
            IF k = dateStr THEN <<session>> ELSE grouped[k]]

\* lines 106-114: the loop over the sessions from index i on
RECURSIVE GroupFrom(_, _, _)
GroupFrom(list, i, grouped) ==
    IF i > Len(list) THEN grouped
    ELSE GroupFrom(list, i + 1,
                   PushSession(grouped, ToFormatDashedDate(list[i].startTime), list[i]))

\* line 118: the comparator a.startTime.toMillis() - b.startTime.toMillis();
\* toMillis() of an invalid DateTime is NaN, and sort takes a NaN result as 0
CompareStart(a, b) ==
    IF a.startTime.kind = "valid" /\ b.startTime.kind = "valid"
    THEN a.startTime.ts - b.startTime.ts
    ELSE 0

\* line 118: the place that the stable Array.prototype.sort gives list[i]
SortedPlace(list, i) ==
    1 + Cardinality({j \in 1..Len(list) :
                       \/ CompareStart(list[j], list[i]) < 0
                       \/ CompareStart(list[j], list[i]) = 0 /\ j < i})

\* a variant of line 118 that leaves the list as it is
SortByStart_Unsorted(list) == list

\* line 118: Array.prototype.sort with the comparator, which is stable
SortByStart(list) ==
    [p \in 1..Len(list) |-> list[CHOOSE i \in 1..Len(list) : SortedPlace(list, i) = p]]

\* lines 117-119: every list of grouped sorted in place
SortGroups(grouped) == [k \in DOMAIN grouped |-> SortByStart(grouped[k])]

\* lines 103-122
GroupSessionsByDate(list) == SortGroups(GroupFrom(list, 1, <<>>))

-----------------------------------------------------------------------------
(* icsGenerator.js: ICSGenerator                                            *)

MAX_LENGTH == 75

CRLF == "\r\n"

\* lines 144-153: the loop from position i of text on, at the start of a line
RECURSIVE FoldFrom(_, _)
FoldFrom(text, i) ==
    IF Len(text) - i + 1 >= MAX_LENGTH
    THEN Slice(text, i, i + MAX_LENGTH - 1) \o CRLF \o " " \o FoldFrom(text, i + MAX_LENGTH)
    ELSE Slice(text, i, Len(text))

\* lines 137-154
FoldLine(text) == FoldFrom(text, 1)

\* lines 116-120; a JavaScript Date has no toFormat
FormatIcsTime(dateTime) == ToFormatDate(dateTime) \o "T" \o ToFormatTime(dateTime)

\* lines 127-130, for an instant [ts, sec] of 2025 in UTC
FormatUtcTime(date) ==
    ToFormatDate(ValidDateTime(date.ts)) \o "T" \o PadNum(HourOf(date), 2)
      \o PadNum(MinuteOf(date), 2) \o PadNum(date.sec, 2) \o "Z"

\* lines 19-47
CalendarHeader ==
    <<"BEGIN:VCALENDAR",
      "VERSION:2.0",
      "PRODID:-//Identiverse//Conference Calendar//EN",
      "CALSCALE:GREGORIAN",
      "METHOD:PUBLISH",
      "X-WR-CALNAME:Identiverse 2025 Conference",
      "X-WR-TIMEZONE:America/Los_Angeles",
      "X-WR-CALDESC:Events for Identiverse 2025 Conference",
      "BEGIN:VTIMEZONE",
      "TZID:America/Los_Angeles",
      "TZURL:http://tzurl.org/zoneinfo-outlook/America/Los_Angeles",
      "X-LIC-LOCATION:America/Los_Angeles",
      "BEGIN:DAYLIGHT",
      "TZOFFSETFROM:-0800",
      "TZOFFSETTO:-0700",
      "TZNAME:PDT",
      "DTSTART:20250309T020000",
      "RRULE:FREQ=YEARLY;BYMONTH=3;BYDAY=2SU",
      "END:DAYLIGHT",
      "BEGIN:STANDARD",
      "TZOFFSETFROM:-0700",
      "TZOFFSETTO:-0800",
      "TZNAME:PST",
      "DTSTART:20251102T020000",
      "RRULE:FREQ=YEARLY;BYMONTH=11;BYDAY=1SU",
      "END:STANDARD",
      "END:VTIMEZONE">>

\* lines 53-98: the lines of one event; now is the value of new Date() at line 73
EventLines(session, now) ==
    LET startTime   == FormatIcsTime(session.startTime)
        endTime     == FormatIcsTime(session.endTime)
        description == FoldLine(IF session.description # "" THEN session.description
                                ELSE "No description available")
        location    == FoldLine(IF session.location # "" THEN session.location
                                ELSE "Caesars Forum, Las Vegas, NV")
        summary     == FoldLine(session.title \o " (PDT)")
        uid         == IF session.uid # "" THEN session.uid
                       ELSE "identiverse-2025-" \o PadNum(now.ts, 1) \o "@identiverse.com"
    IN <<"BEGIN:VEVENT",
         "UID:" \o uid,
         "SEQUENCE:0",
         "DTSTAMP:" \o FormatUtcTime(now),
         "DTSTART;TZID=America/Los_Angeles:" \o startTime,
         "DTEND;TZID=America/Los_Angeles:" \o endTime,
         "SUMMARY:" \o summary,
         "DESCRIPTION:" \o description,
         "LOCATION:" \o location,
         "CLASS:PUBLIC",
         "STATUS:CONFIRMED",
         "TRANSP:OPAQUE",
         "X-MICROSOFT-CDO-INTENDEDSTATUS:BUSY",
         "X-MICROSOFT-CDO-IMPORTANCE:1",
         "X-MICROSOFT-CDO-ALLDAYEVENT:FALSE",
         "X-MICROSOFT-CDO-BUSYSTATUS:BUSY",
         "X-MICROSOFT-CDO-INSTTYPE:0",
         "X-MICROSOFT-DISALLOW-COUNTER:FALSE",
         "X-MICROSOFT-CDO-TZID:Pacific Standard Time",
         "X-TIMEZONE-CONF:America/Los_Angeles">>
        \o (IF session.type # "" THEN <<"CATEGORIES:" \o session.type>> ELSE <<>>)
        \o <<"END:VEVENT">>

\* a variant of lines 50-102 that stops after the first event
AllEventLines_FirstOnly(list, nows, i) ==
    IF i > 1 \/ i > Len(list) THEN <<>> ELSE EventLines(list[i], nows[i])

\* lines 50-102: sessions.forEach from index i on
RECURSIVE AllEventLines(_, _, _)
AllEventLines(list, nows, i) ==
    IF i > Len(list) THEN <<>>
    ELSE EventLines(list[i], nows[i]) \o AllEventLines(list, nows, i + 1)

\* lines 15-105: the array icsContent when createCalendar joins it; nows[i] is
\* the clock reading while the i-th event is built
CalendarLines(list, nows) ==
    CalendarHeader \o AllEventLines(list, nows, 1) \o <<"END:VCALENDAR">>

\* line 108: the string createCalendar returns
CreateCalendar(list, nows) == Join(CalendarLines(list, nows), CRLF)

-----------------------------------------------------------------------------
(* index.js: main, with the scraper as the source of raw records            *)

Filler ==
    "Identity is the new perimeter; every session here shows how to verify it, protect it, move it between systems and retire it, without losing the people behind it."

\* a text of exactly n characters (n <= 160)
TextOfLen(n) == Slice(Filler, 1, n)

BaseRecord ==
    [date |-> "JUNE 3", time |-> "9:30 AM - 11:20 AM", title |-> "Registration",
     description |-> "Badge pickup", location |-> "Main Lobby", speakers |-> <<>>,
     type |-> "GENERAL", detailsUrl |-> "", malformed |-> "none"]

RawRecords ==
    { BaseRecord,
      [BaseRecord EXCEPT !.time = "8 AM - 7 PM", !.location = "Hall B",
                         !.description = "Moved to the afternoon",
                         !.detailsUrl = "https://identiverse.com/agenda/"],
      [BaseRecord EXCEPT !.time = "25:00 - 26:00"],
      [BaseRecord EXCEPT !.title = "Lunch", !.date = "", !.time = ""],
      [BaseRecord EXCEPT !.title = "Breakfast", !.date = "JUNE 4", !.time = ""],
      [BaseRecord EXCEPT !.title = "Bootcamp", !.date = "", !.time = "1:30 PM"],
      [BaseRecord EXCEPT !.date = "JUNE 5", !.time = "11:00 AM - 1:30", !.title = "",
                         !.description = "", !.location = "", !.type = ""],
      [BaseRecord EXCEPT !.title = TextOfLen(MAX_LENGTH + 5),
                         !.description = TextOfLen(2 * MAX_LENGTH),
                         !.location = TextOfLen(MAX_LENGTH + 1),
                         !.speakers = <<"Jane Smith, CTO", "John Doe">>,
                         !.detailsUrl = "https://identiverse.com/idv25/session/?idvid=1234"],
      [BaseRecord EXCEPT !.title = TextOfLen(MAX_LENGTH - 6), !.date = "JUNE 6",
                         !.time = "11:00 PM - 1:00 AM", !.location = TextOfLen(MAX_LENGTH),
                         !.detailsUrl = "https://identiverse.com/idv25/session/?IDVID=12"],
      [BaseRecord EXCEPT !.title = "Null record", !.malformed = "record"],
      [BaseRecord EXCEPT !.title = "Numeric date", !.malformed = "date"],
      [BaseRecord EXCEPT !.title = "42", !.malformed = "title"],
      [BaseRecord EXCEPT !.title = "Panel", !.malformed = "speakers"],
      [BaseRecord EXCEPT !.title = "Masterclass", !.date = "JUNE 4", !.time = "11:30 PM",
                         !.detailsUrl = "https://identiverse.com/idv25/session/?idvid=&idvid=55&tab=2"],
      [BaseRecord EXCEPT !.title = "Closing", !.date = "JUNE 31",
                         !.time = "10:00 AM - 11:00 AM",
                         !.detailsUrl = "https://identiverse.com/idv25/session/?idvid=31"],
      [BaseRecord EXCEPT !.title = "event"],
      [BaseRecord EXCEPT !.title = "Sponsor demo",
                         !.detailsUrl = "https://identiverse.com/idv25/session/?idvid=20250603-5c6729a"] }

\* readings of the clock (UTC, in 2025) while createCalendar runs
Nows == {[ts |-> 200000, sec |-> 7], [ts |-> 200001, sec |-> 0]}

Init ==
    /\ pc = "scrape"
    /\ rawSessions = <<>>
    /\ sessions = <<>>
    /\ icsContent = <<>>
    /\ groupedSessions = <<>>
    /\ call = IdleCall

\* index.js line 31: scrapeAllSessions delivers one more record
Scrape ==
    /\ pc = "scrape"
    /\ Len(rawSessions) < MaxSessions
    /\ \E r \in RawRecords : rawSessions' = Append(rawSessions, r)
    /\ UNCHANGED <<pc, sessions, icsContent, groupedSessions, call>>

\* index.js line 36: processAll (dataProcessor.js:129-137), whose sessions are
\* those of processSessionData and whose groupedSessions those of
\* groupSessionsByDate
ProcessAll ==
    /\ pc = "scrape"
    /\ \E r \in {ProcessSessionData(rawSessions)} :
         /\ pc' = IF r.threw THEN "aborted" ELSE "processed"
         /\ sessions' = r.value
         /\ groupedSessions' = IF r.threw THEN <<>> ELSE GroupSessionsByDate(r.value)
    /\ UNCHANGED <<rawSessions, icsContent, call>>

\* index.js line 42: generateICSFile, which writes what createCalendar returns
GenerateICSFile ==
    /\ pc = "processed"
    /\ \E nows \in [1..Len(sessions) -> Nows] :
         /\ \A i, j \in 1..Len(sessions) : i <= j => nows[i].ts <= nows[j].ts
         /\ icsContent' = CalendarLines(sessions, nows)
    /\ pc' = "done"
    /\ UNCHANGED <<rawSessions, sessions, groupedSessions, call>>

Next == Scrape \/ ProcessAll \/ GenerateICSFile

Spec == Init /\ [][Next]_vars

-----------------------------------------------------------------------------
(* Claims about processSessionData and createCalendar, under Spec           *)

\* main holds the list that processSessionData returned
Processed == pc \in {"processed", "done"}

\* processAll has just returned; generateICSFile changes neither rawSessions nor
\* sessions nor groupedSessions, so what holds of them here holds from here on
JustProcessed == pc = "processed"

WellFormed(r) == r.malformed = "none"

BothEmpty(r) == r.date = "" /\ r.time = ""

ALabelEmpty(r) == r.date = "" \/ r.time = ""

HasSourceId(r) == ExtractSessionId(r.detailsUrl) # ""

\* the pieces of s from position i on that CRLF separates
RECURSIVE SplitFrom(_, _)

BreakAt(s, i, j) ==
    IF j = 0 THEN <<Slice(s, i, Len(s))>>
    ELSE <<Slice(s, i, j - 1)>> \o SplitFrom(s, j + 2)

SplitFrom(s, i) == BreakAt(s, i, IndexFrom(s, CRLF, i))

RECURSIVE LinesRange(_, _, _)
LinesRange(content, lo, hi) ==
    IF lo > hi THEN <<>>
    ELSE IF lo = hi THEN SplitFrom(content[lo], 1)
    ELSE LinesRange(content, lo, (lo + hi) \div 2) \o LinesRange(content, (lo + hi) \div 2 + 1, hi)

\* the physical lines of the string createCalendar returns: it joins the
\* collected lines with CRLF (line 108), so they are the pieces of each
\* collected line in turn
PhysicalLines == LinesRange(icsContent, 1, Len(icsContent))

Positions(L, x) == {k \in DOMAIN L : L[k] = x}

Count(L, x) == Cardinality(Positions(L, x))

\* the i-th smallest element of a set of numbers
Nth(S, i) == CHOOSE k \in S : Cardinality({j \in S : j < k}) = i - 1

HasPrefix(l, pre) == Slice(l, 1, Len(pre)) = pre

IsUIDLine(l) == HasPrefix(l, "UID:")

IsTextField(l) ==
    HasPrefix(l, "SUMMARY:") \/ HasPrefix(l, "DESCRIPTION:") \/ HasPrefix(l, "LOCATION:")

NotBothEmpty(r) == ~BothEmpty(r)

NoLabelEmpty(r) == ~ALabelEmpty(r)

\* C2: two raw records without a source identifier that have the same title and
\* the same date label get the same fallback UID from processSessionData,
\* whatever their time labels, locations and descriptions. (Stated where every
\* raw record was emitted, so that sessions[i] is the record of rawSessions[i].)
C2_SameTitleAndDateSameUID ==
    (Processed /\ Len(sessions) = Len(rawSessions))
    => \A i, j \in DOMAIN rawSessions :
         (/\ ~HasSourceId(rawSessions[i]) /\ ~HasSourceId(rawSessions[j])
          /\ rawSessions[i].title = rawSessions[j].title
          /\ rawSessions[i].date = rawSessions[j].date)
         => sessions[i].uid = sessions[j].uid

\* C6: a raw record whose date label and time label are both empty yields no
\* validated record and no VEVENT block, and the result is the one the other
\* records of the input give on their own.
C6_BothEmptyDropped ==
    /\ JustProcessed =>
         /\ sessions = ProcessSessionData(SelectSeq(rawSessions, NotBothEmpty)).value
         /\ Len(sessions) <= Len(SelectSeq(rawSessions, NotBothEmpty))
         /\ \A i \in DOMAIN rawSessions :
              (/\ BothEmpty(rawSessions[i])
               /\ \A j \in DOMAIN rawSessions :
                    NotBothEmpty(rawSessions[j]) => rawSessions[j].title # rawSessions[i].title)
              => \A k \in DOMAIN sessions : sessions[k].title # rawSessions[i].title
    /\ pc = "done" =>
         LET L == PhysicalLines
         IN /\ Count(L, "BEGIN:VEVENT") = Len(sessions)
            /\ \A i \in DOMAIN rawSessions :
                 (/\ BothEmpty(rawSessions[i])
                  /\ \A j \in DOMAIN rawSessions :
                       NotBothEmpty(rawSessions[j]) => rawSessions[j].title # rawSessions[i].title)
                 => Count(L, "SUMMARY:" \o rawSessions[i].title \o " (PDT)") = 0

\* C6 witness: a finished run whose input held a record with both labels empty
\* and a complete record, and whose calendar has the one event of the latter
C6_Witness ==
    /\ pc = "done" /\ Len(rawSessions) = 2 /\ Len(sessions) = 1
    /\ BothEmpty(rawSessions[1]) /\ WellFormed(rawSessions[1])
    /\ NoLabelEmpty(rawSessions[2]) /\ WellFormed(rawSessions[2])
    /\ sessions[1].title = rawSessions[2].title
    /\ Count(PhysicalLines, "BEGIN:VEVENT") = 1

C8_FailureNeverAborts ==
    /\ pc # "aborted"
    /\ JustProcessed => sessions = ProcessSessionData(SelectSeq(rawSessions, WellFormed)).value

\* C8 witness: a returned call whose input held a null element and then a
\* complete record, with the latter's validated record as the result
C8_Witness ==
    /\ Processed /\ Len(rawSessions) = 2 /\ Len(sessions) = 1
    /\ rawSessions[1].malformed = "record"
    /\ rawSessions[2] = BaseRecord
    /\ sessions[1].title = "Registration"

\* C9: the output has exactly one VEVENT block per record, in input order (the
\* i-th UID line carries the i-th record's uid, inside the i-th block), in one
\* VCALENDAR container whose header lines and single VTIMEZONE block precede
\* all events and whose END:VCALENDAR is the last line; no record, no VEVENT.
C9_OneEventPerRecordInOrder ==
    pc = "done"
    => LET L      == PhysicalLines
           n      == Len(sessions)
           begins == Positions(L, "BEGIN:VEVENT")
           ends   == Positions(L, "END:VEVENT")
           uids   == SelectSeq(L, IsUIDLine)
       IN /\ Cardinality(begins) = n /\ Cardinality(ends) = n /\ Len(uids) = n
          /\ \A i \in 1..n :
               /\ uids[i] = "UID:" \o sessions[i].uid
               /\ Nth(begins, i) < Nth(ends, i)
               /\ i < n => Nth(ends, i) < Nth(begins, i + 1)
               /\ \E k \in Nth(begins, i)..Nth(ends, i) : L[k] = "UID:" \o sessions[i].uid
          /\ SubSeq(L, 1, Len(CalendarHeader)) = CalendarHeader
          /\ Positions(L, "BEGIN:VCALENDAR") = {1}
          /\ Positions(L, "END:VCALENDAR") = {Len(L)}
          /\ Count(L, "BEGIN:VTIMEZONE") = 1 /\ Count(L, "END:VTIMEZONE") = 1
          /\ \A k \in begins : k > Len(CalendarHeader)

\* C9 witness: a finished run with two records of different uids and two VEVENT blocks
C9_Witness ==
    /\ pc = "done" /\ Len(sessions) = 2
    /\ sessions[1].uid # sessions[2].uid
    /\ Count(PhysicalLines, "BEGIN:VEVENT") = 2
    /\ Count(PhysicalLines, "UID:" \o sessions[2].uid) = 1

\* C10: no physical line of a SUMMARY, DESCRIPTION or LOCATION property (the
\* first line with the property name, each continuation line with its leading
\* space) is longer than 75 characters.
C10_NoPhysicalLineOver75 ==
    pc = "done"
    => \A k \in DOMAIN icsContent :
         IsTextField(icsContent[k])
         => \A j \in DOMAIN SplitFrom(icsContent[k], 1) :
              Len(SplitFrom(icsContent[k], 1)[j]) <= MAX_LENGTH

-----------------------------------------------------------------------------
(* Reading the calendar back, as a reader of the format does                *)

\* a content line with its folds undone: each CRLF that a single space follows
\* is removed together with that space
RECURSIVE UnfoldPieces(_, _)
UnfoldPieces(pieces, i) ==
    IF i > Len(pieces) THEN ""
    ELSE (IF i = 1 THEN pieces[1] ELSE Slice(pieces[i], 2, Len(pieces[i])))
           \o UnfoldPieces(pieces, i + 1)

Unfold(line) == UnfoldPieces(SplitFrom(line, 1), 1)

\* the content lines of the output after unfolding
LogicalLines == [k \in DOMAIN icsContent |-> Unfold(icsContent[k])]

\* the value of the first line among U[b..e] that starts with prefix, "" when none does
FieldValue(U, b, e, prefix) ==
    LET ks == {k \in b..e : HasPrefix(U[k], prefix)}
        k  == CHOOSE x \in ks : \A y \in ks : x <= y
    IN IF ks = {} THEN "" ELSE Slice(U[k], Len(prefix) + 1, Len(U[k]))

IsDigits(s) == \A i \in 1..Len(s) : IsDigit(At(s, i))

Unreadable == [kind |-> "unreadable", ts |-> 0]

\* a DATE-TIME value yyyyMMdd'T'HHmmss read as local wall-clock time
ReadIcsTime(v) ==
    IF /\ Len(v) = 15 /\ At(v, 9) = "T"
       /\ IsDigits(Slice(v, 1, 8)) /\ IsDigits(Slice(v, 10, 15))
       /\ ParseInt(Slice(v, 1, 4)) = YEAR
       /\ ParseInt(Slice(v, 14, 15)) = 0
    THEN FromObject(ParseInt(Slice(v, 5, 6)), ParseInt(Slice(v, 7, 8)),
                    ParseInt(Slice(v, 10, 11)), ParseInt(Slice(v, 12, 13)))
    ELSE Unreadable

\* a TEXT value with its escapes undone: \\ \; \, give the character, \n and \N
\* a newline
RECURSIVE ReadTextFrom(_, _)
ReadTextFrom(v, i) ==
    IF i > Len(v) THEN ""
    ELSE IF At(v, i) = "\\" /\ i < Len(v)
    THEN (IF At(v, i + 1) \in {"n", "N"} THEN "\n" ELSE At(v, i + 1)) \o ReadTextFrom(v, i + 2)
    ELSE At(v, i) \o ReadTextFrom(v, i + 1)

ReadText(v) == ReadTextFrom(v, 1)

\* whether position i of v is escaped: an odd number of backslashes precedes it
RECURSIVE BackslashesBefore(_, _)
BackslashesBefore(v, i) ==
    IF i > 1 /\ At(v, i - 1) = "\\" THEN 1 + BackslashesBefore(v, i - 1) ELSE 0

IsEscapedAt(v, i) == BackslashesBefore(v, i) % 2 = 1

\* a TEXT value in which every comma, semicolon and backslash is escaped and no
\* raw line break occurs
IsEscapedText(v) ==
    \A i \in 1..Len(v) :
      /\ At(v, i) \notin {"\n", "\r"}
      /\ At(v, i) \in {",", ";"} => IsEscapedAt(v, i)
      /\ (At(v, i) = "\\" /\ ~IsEscapedAt(v, i)) => At(v, i + 1) \in {"\\", ";", ",", "n", "N"}

\* C11: in the output every comma, semicolon, backslash and newline of a record's
\* title, description or location is escaped in the SUMMARY, DESCRIPTION and
\* LOCATION values; no raw line break occurs inside a DESCRIPTION value.
C11_TextValuesEscaped ==
    pc = "done"
    => \A k \in DOMAIN icsContent :
         IsTextField(icsContent[k]) => IsEscapedText(Unfold(icsContent[k]))

\* C12: reading the output back gives, for the i-th of the N records, an event
\* whose UID, start, end, summary and location are the record's uid, startTime,
\* endTime, title and location.
C12_RoundTrip ==
    pc = "done"
    => LET U      == LogicalLines
           begins == Positions(U, "BEGIN:VEVENT")
           ends   == Positions(U, "END:VEVENT")
       IN /\ Cardinality(begins) = Len(sessions)
          /\ Cardinality(ends) = Len(sessions)
          /\ \A i \in DOMAIN sessions :
               LET b == Nth(begins, i)
                   e == Nth(ends, i)
               IN /\ FieldValue(U, b, e, "UID:") = sessions[i].uid
                  /\ ReadIcsTime(FieldValue(U, b, e, "DTSTART;TZID=America/Los_Angeles:"))
                       = sessions[i].startTime
                  /\ ReadIcsTime(FieldValue(U, b, e, "DTEND;TZID=America/Los_Angeles:"))
                       = sessions[i].endTime
                  /\ ReadText(FieldValue(U, b, e, "SUMMARY:")) = sessions[i].title
                  /\ ReadText(FieldValue(U, b, e, "LOCATION:")) = sessions[i].location

-----------------------------------------------------------------------------
(* Further claims about parseLasVegasTime, under SpecTime                   *)

\* date labels with the month and the day that they name
DateCases ==
    {[label |-> "JUNE 3", month |-> 6, day |-> 3],
     [label |-> "JUNE 5", month |-> 6, day |-> 5],
     [label |-> "June 5", month |-> 6, day |-> 5],
     [label |-> "jun 30", month |-> 6, day |-> 30],
     [label |-> "JULY 31", month |-> 7, day |-> 31],
     [label |-> "MAY 30", month |-> 5, day |-> 30],
     [label |-> "Wed, Jul 2 2025", month |-> 7, day |-> 2]}

\* the hour of the day of hour h of the 12-hour clock with its marker
Hour24(h, marker) ==
    IF marker = "PM" THEN (IF h = 12 THEN 12 ELSE h + 12)
    ELSE (IF h = 12 THEN 0 ELSE h)

\* time parts 'h:mm AM|PM' and 'h AM|PM' with the time of day that they name
ClockCases ==
    {[text |-> PadNum(h, 1) \o ":" \o PadNum(m, 2) \o " " \o mk,
      hour |-> Hour24(h, mk), minute |-> m] :
        h \in {1, 9, 11, 12}, m \in {0, 20, 30}, mk \in {"AM", "PM"}}
      \cup {[text |-> PadNum(h, 1) \o " " \o mk, hour |-> Hour24(h, mk), minute |-> 0] :
              h \in {1, 9, 11, 12}, mk \in {"AM", "PM"}}

\* C13: for a date label naming month and day d and a time label
\* 'h1[:m1] AM|PM - h2[:m2] AM|PM', the returned start is day d of that month of
\* 2025 at the 24-hour value of h1:m1, and the returned end is the same date at
\* the 24-hour value of h2:m2 when that is later than the start.
C13_WellFormedRange ==
    TimeReturned
    => \A d \in {x \in DateCases : x.label = call.dateStr} :
         \A p1 \in {x \in ClockCases : HasPrefix(call.timeStr, x.text \o " - ")} :
           \A p2 \in {x \in ClockCases : call.timeStr = p1.text \o " - " \o x.text} :
             /\ call.ret.start = FromObject(d.month, d.day, p1.hour, p1.minute)
             /\ call.ret.start.kind = "valid"
             /\ (p2.hour * 60 + p2.minute > p1.hour * 60 + p1.minute)
                  => call.ret.end = FromObject(d.month, d.day, p2.hour, p2.minute)

\* C13 witness: 'JUNE 5' with '11:00 AM - 1:30 PM' has returned 11:00 and 13:30
\* of 5 June
C13_Witness ==
    /\ TimeReturned
    /\ call.dateStr = "JUNE 5" /\ call.timeStr = "11:00 AM - 1:30 PM"
    /\ call.ret.start = ValidDateTime(((155 * 24) + 11) * 60)
    /\ call.ret.end = ValidDateTime(((155 * 24) + 13) * 60 + 30)

-----------------------------------------------------------------------------
(* Further claims about createCalendar, under Spec                          *)

\* the DTSTART and DTEND lines of the i-th event of the output carry the
\* TZID=America/Los_Angeles tag and, read as local wall-clock time, the start
\* and the end of the i-th record
WrittenAsLocalTime(i) ==
    LET U == LogicalLines
        b == Nth(Positions(U, "BEGIN:VEVENT"), i)
        e == Nth(Positions(U, "END:VEVENT"), i)
    IN /\ ReadIcsTime(FieldValue(U, b, e, "DTSTART;TZID=America/Los_Angeles:"))
            = sessions[i].startTime
       /\ ReadIcsTime(FieldValue(U, b, e, "DTEND;TZID=America/Los_Angeles:"))
            = sessions[i].endTime
       /\ \A k \in b..e : ~HasPrefix(U[k], "DTSTART:") /\ ~HasPrefix(U[k], "DTEND:")

\* C14: for every encoded event the DTSTART and DTEND values are the record's
\* start and end as local wall-clock time yyyyMMdd'T'HHmmss under
\* TZID=America/Los_Angeles, with the hour and minute that parseLasVegasTime
\* derived and no offset shift.
C14_WrittenAsLocalTime ==
    pc = "done" => \A i \in DOMAIN sessions : WrittenAsLocalTime(i)

\* C14 for the records whose start and end are valid instants: these are
\* written as local wall-clock time
C14_ValidInstantsWrittenAsLocalTime ==
    pc = "done"
    => \A i \in DOMAIN sessions :
         (sessions[i].startTime.kind = "valid" /\ sessions[i].endTime.kind = "valid")
         => WrittenAsLocalTime(i)

-----------------------------------------------------------------------------
(* Further claims about generateUID, under SpecUID                          *)

IsHex(s) == \A i \in 1..Len(s) : At(s, i) \in CharsOf(HexChars)

UIDSuffix == "@identiverse.com"

\* the part of a UID before '@identiverse.com'
UIDBody(uid) == Slice(uid, 1, Len(uid) - Len(UIDSuffix))

\* C15: without a source identifier the UID is
\* 'identiverse-2025-<cleanTitle>-<dateStr>-<hash>@identiverse.com', cleanTitle
\* the title without its non-alphanumeric characters cut to 30 characters,
\* dateStr the start date as yyyyMMdd ('20250603' for a null start) and hash
\* exactly 8 hexadecimal digits, for every title.
C15_FallbackUIDForm ==
    (UIDReturned /\ call.sessionId = "" /\ call.startTime.kind \in {"valid", "null"})
    => LET body == UIDBody(call.ret)
           hash == Slice(body, Len(body) - 7, Len(body))
       IN /\ call.ret = body \o UIDSuffix
          /\ Len(hash) = 8 /\ IsHex(hash)
          /\ Slice(body, 1, Len(body) - 8)
               = "identiverse-2025-"
                   \o Slice(StripNonAlnum(call.title, 1, Len(call.title)), 1, 30) \o "-"
                   \o (IF call.startTime.kind = "null" THEN "20250603"
                       ELSE ToFormatDate(call.startTime)) \o "-"

-----------------------------------------------------------------------------
(* The checksum of generateUID on its own: one pass of the loop body from    *)
(* any 32-bit value, and the whole computation for a title                  *)

\* 16-bit halves of the hash values a pass starts from
HashHalves == {0, 1, 2, 31, 2047, 2048, 2114, 32767, 32768, 65535}

\* values of title.charCodeAt(i)
HashCodes == {0, 9, 32, 65, 97, 126, 255, 65535}

HashInit ==
    /\ pc = "scrape" /\ rawSessions = <<>> /\ sessions = <<>> /\ icsContent = <<>>
    /\ groupedSessions = <<>>
    /\ \/ \E hi \in HashHalves, lo \in HashHalves, code \in HashCodes :
            call = [fn |-> "hashStep", h |-> [hi |-> hi, lo |-> lo], code |-> code,
                    returned |-> FALSE, ret |-> [hi |-> 0, lo |-> 0]]
       \/ \E t \in UIDTitles :
            call = [fn |-> "titleHash", title |-> t, returned |-> FALSE, ret |-> ""]

\* lines 252-253: one pass of the loop body
CallHashStep ==
    /\ call.fn = "hashStep" /\ ~call.returned
    /\ call' = [call EXCEPT !.returned = TRUE, !.ret = HashStep(call.h, call.code)]
    /\ UNCHANGED <<pc, rawSessions, sessions, icsContent, groupedSessions>>

\* lines 249-255: the checksum of a title
CallTitleHash ==
    /\ call.fn = "titleHash" /\ ~call.returned
    /\ call' = [call EXCEPT !.returned = TRUE, !.ret = TitleHash(call.title)]
    /\ UNCHANGED <<pc, rawSessions, sessions, icsContent, groupedSessions>>

HashNext == CallHashStep \/ CallTitleHash

SpecHash == HashInit /\ [][HashNext]_vars

\* h * 31 + code modulo 2^32, on 16-bit halves
Times31(h, code) ==
    [hi |-> (h.hi * 31 + ((h.lo * 31 + code) \div Word)) % Word,
     lo |-> (h.lo * 31 + code) % Word]

\* the rolling hash of the first n characters of title from seed 0
RECURSIVE Rolling31(_, _)
Rolling31(title, n) ==
    IF n = 0 THEN [hi |-> 0, lo |-> 0]
    ELSE CHOOSE r \in {Times31(prev, CharCode(At(title, n))) :
                         prev \in {Rolling31(title, n - 1)}} : TRUE

\* the absolute value of h read as a signed 32-bit integer
Magnitude(h) ==
    IF h.hi < 32768 THEN h
    ELSE [hi |-> (Word - h.hi - (IF h.lo = 0 THEN 0 ELSE 1)) % Word,
          lo |-> (Word - h.lo) % Word]

\* C16: one pass of the loop body gives hash * 31 + charCode modulo 2^32 for
\* every 32-bit hash value and every character code; the checksum of a title is
\* the hexadecimal form of the absolute value of the rolling hash with seed 0
\* over the raw title, wrapped to 32 bits after every character.
C16_RollingHash31 ==
    /\ (call.fn = "hashStep" /\ call.returned) => call.ret = Times31(call.h, call.code)
    /\ (call.fn = "titleHash" /\ call.returned)
         => call.ret = Slice(ToHex(Magnitude(Rolling31(call.title, Len(call.title)))), 1, 8)

\* C16 witness: a pass from a negative hash value whose result wraps, and it is
\* the value times 31 plus the code
C16_Witness ==
    /\ call.fn = "hashStep" /\ call.returned
    /\ call.h = [hi |-> 65535, lo |-> 2114] /\ call.code = 97
    /\ call.ret = [hi |-> 65506, lo |-> 95]

-----------------------------------------------------------------------------
(* Claims about the parts of a time label, under SpecTime                   *)

\* C17: a start or end part of the time label in which no hour can be matched
\* is treated as noon: it gets hour 12 and minute 0 on the parsed date.
C17_UnmatchedPartIsNoon ==
    TimeReturned
    => \A d \in {x \in DateCases : x.label = call.dateStr} :
         /\ FirstDigit(SplitTimeParts(call.timeStr)[1]) = 0
              => call.ret.start = FromObject(d.month, d.day, 12, 0)
         /\ (HasEndPart(call.timeStr) /\ FirstDigit(SplitTimeParts(call.timeStr)[2]) = 0)
              => NaiveEnd(call.dateStr, call.timeStr) = FromObject(d.month, d.day, 12, 0)

\* 12-hour parts 'h[:mm][ AM|PM]' with the hour and minute that the conversion
\* rule gives them: PM and h < 12 gives h + 12, AM and h = 12 gives 0, every
\* other part keeps h; an absent minute is 0
MarkerCases ==
    {[text |-> PadNum(h, 1) \o ":" \o PadNum(m, 2) \o mk,
      hour |-> IF mk = " PM" /\ h < 12 THEN h + 12 ELSE IF mk = " AM" /\ h = 12 THEN 0 ELSE h,
      minute |-> m] :
        h \in {1, 9, 11, 12}, m \in {0, 20, 30}, mk \in {" AM", " PM", ""}}
      \cup {[text |-> PadNum(h, 1) \o mk,
             hour |-> IF mk = " PM" /\ h < 12 THEN h + 12 ELSE IF mk = " AM" /\ h = 12 THEN 0 ELSE h,
             minute |-> 0] :
              h \in {1, 9, 11, 12}, mk \in {" AM", " PM"}}

\* C18: a part with a PM marker and hour < 12 gets hour + 12, a part with an AM
\* marker and hour 12 gets hour 0, and every other part (hour 12 with PM, any
\* hour without a marker) keeps its parsed hour; an absent minute is 0.
C18_TwelveToTwentyFour ==
    TimeReturned
    => \A d \in {x \in DateCases : x.label = call.dateStr} :
         \A p \in {x \in MarkerCases : x.text = call.timeStr} :
           call.ret.start = FromObject(d.month, d.day, p.hour, p.minute)

-----------------------------------------------------------------------------
(* Claims about failures of parseLasVegasTime inside processSessionData,     *)
(* under Spec                                                               *)

-----------------------------------------------------------------------------
(* Claims about the date label, under SpecTime                              *)

\* date labels with the month and day of the parsing rule: 6 for JUNE or JUN,
\* 7 for JULY or JUL, 5 for MAY, in any case and anywhere in the label, 6
\* otherwise; the first integer of the label, 1 when it has no digit
DateRuleCases ==
    DateCases
      \cup {[label |-> "Tuesday", month |-> 6, day |-> 1],
            [label |-> "", month |-> 6, day |-> 1],
            [label |-> "JUNE 31", month |-> 6, day |-> 31]}

\* C20: the start instant lies in 2025 on the month and day that the rule gives
\* the date label (no instant when the month has no such day), whenever the
\* start part of the time label is a well-formed 12-hour part.
C20_DateLabelParsing ==
    (TimeReturned /\ \E p \in MarkerCases : p.text = SplitTimeParts(call.timeStr)[1])
    => \A d \in {x \in DateRuleCases : x.label = call.dateStr} :
         /\ call.ret.start
              = FromObject(d.month, d.day, HourOf(call.ret.start), MinuteOf(call.ret.start))
         /\ d.day <= DaysInMonth[d.month]
              => /\ call.ret.start.kind = "valid"
                 /\ call.ret.start.ts \div 1440 = DaysBefore(d.month) + d.day - 1

\* C20 witness: a returned call for a label whose month is abbreviated in mixed
\* case and whose day comes before another integer, with its start on 2 July
C20_Witness ==
    /\ TimeReturned
    /\ call.dateStr = "Wed, Jul 2 2025" /\ call.timeStr = "9:30 AM"
    /\ call.ret.start = ValidDateTime((182 * 24 + 9) * 60 + 30)

-----------------------------------------------------------------------------
(* Claims about the source identifier and the fields of a validated record, *)
(* under Spec                                                               *)

\* detail-page URLs with the digits that follow their first 'idvid=' that has
\* digits after it ("" when the URL has no such place)
UrlCases ==
    { [url |-> "", digits |-> ""],
      [url |-> "https://identiverse.com/agenda/", digits |-> ""],
      [url |-> "https://identiverse.com/idv25/session/?IDVID=12", digits |-> ""],
      [url |-> "https://identiverse.com/idv25/session/?idvid=1234", digits |-> "1234"],
      [url |-> "https://identiverse.com/idv25/session/?idvid=31", digits |-> "31"],
      [url |-> "https://identiverse.com/idv25/session/?idvid=&idvid=55&tab=2", digits |-> "55"],
      [url |-> "https://identiverse.com/idv25/session/?idvid=20250603-5c6729a",
       digits |-> "20250603"] }

\* the text between 'identiverse-2025-' and '@identiverse.com' of a uid
UIDMiddle(uid) == Slice(uid, Len("identiverse-2025-") + 1, Len(uid) - Len("@identiverse.com"))

\* C21: a record whose detailsUrl contains 'idvid=' followed by digits gets
\* sessionId equal to those digits and uid
\* 'identiverse-2025-event-<digits>@identiverse.com'; a record with no
\* detailsUrl, or one without that pattern, gets sessionId null ("") and a
\* fallback uid, whose middle part has the two hyphens around the date. (Stated
\* where every raw record was emitted, so that sessions[i] is the record of
\* rawSessions[i].)
C21_SourceIdFromDetailsUrl ==
    (JustProcessed /\ Len(sessions) = Len(rawSessions))
    => \A i \in DOMAIN rawSessions :
         /\ \E c \in UrlCases : c.url = rawSessions[i].detailsUrl
         /\ \A c \in UrlCases :
              c.url = rawSessions[i].detailsUrl
              => /\ sessions[i].sessionId = c.digits
                 /\ c.digits # ""
                      => sessions[i].uid
                           = "identiverse-2025-event-" \o c.digits \o "@identiverse.com"
                 /\ c.digits = ""
                      => /\ HasPrefix(sessions[i].uid, "identiverse-2025-")
                         /\ Slice(sessions[i].uid, Len(sessions[i].uid) - 15, Len(sessions[i].uid))
                              = "@identiverse.com"
                         /\ Cardinality({k \in 1..Len(UIDMiddle(sessions[i].uid)) :
                                           At(UIDMiddle(sessions[i].uid), k) = "-"}) = 2

\* C21 witness: a returned call for a record whose URL has a bare 'idvid='
\* before 'idvid=55' and a record without the pattern, the first with the
\* identifier '55' and the second with none
C21_Witness ==
    /\ Processed /\ Len(rawSessions) = 2 /\ Len(sessions) = 2
    /\ rawSessions[1].detailsUrl = "https://identiverse.com/idv25/session/?idvid=&idvid=55&tab=2"
    /\ rawSessions[2].detailsUrl = "https://identiverse.com/idv25/session/?IDVID=12"
    /\ sessions[1].sessionId = "55"
    /\ sessions[1].uid = "identiverse-2025-event-55@identiverse.com"
    /\ sessions[2].sessionId = ""
    /\ sessions[2].uid # "identiverse-2025-event-12@identiverse.com"

\* s ends with the text suffix
HasSuffix(s, suffix) ==
    Len(s) >= Len(suffix) /\ Slice(s, Len(s) - Len(suffix) + 1, Len(s)) = suffix

\* a raw record without title, description, speakers, location and type
IsBare(r) ==
    /\ r.title = "" /\ r.description = "" /\ r.speakers = <<>>
    /\ r.location = "" /\ r.type = ""

\* C22: every validated record has a non-empty title, a non-empty description
\* that ends with the fixed timezone note, a non-empty location, a non-empty
\* type and a non-empty uid; a record without title, description, speakers,
\* location and type gets 'Untitled Session', the note alone, 'TBD' and
\* 'Session'.
C22_FieldsNeverEmpty ==
    JustProcessed
    => /\ \A k \in DOMAIN sessions :
            /\ sessions[k].title # ""
            /\ sessions[k].description # ""
            /\ HasSuffix(sessions[k].description,
                         "\nAll times are in Pacific Daylight Time (PDT / UTC-7)")
            /\ sessions[k].location # ""
            /\ sessions[k].type # ""
            /\ sessions[k].uid # ""
       /\ Len(sessions) = Len(rawSessions)
            => \A i \in DOMAIN rawSessions :
                 IsBare(rawSessions[i])
                 => /\ sessions[i].title = "Untitled Session"
                    /\ sessions[i].description
                         = "\nAll times are in Pacific Daylight Time (PDT / UTC-7)"
                    /\ sessions[i].location = "TBD"
                    /\ sessions[i].type = "Session"

\* C22 witness: a returned call whose only input record has no title,
\* description, speakers, location and type, and is emitted with the defaults
C22_Witness ==
    /\ Processed /\ Len(rawSessions) = 1 /\ Len(sessions) = 1
    /\ IsBare(rawSessions[1])
    /\ sessions[1].title = "Untitled Session"
    /\ sessions[1].description = "\nAll times are in Pacific Daylight Time (PDT / UTC-7)"
    /\ sessions[1].uid # ""

\* the lists returned by the calls of results from index i on, one after the other
RECURSIVE OneByOne(_, _)
OneByOne(results, i) ==
    IF i > Len(results) THEN <<>>
    ELSE results[i].value \o OneByOne(results, i + 1)

\* C23: the result of processSessionData on a list is the concatenation, in
\* input order, of its results on each single record; each raw record yields at
\* most one validated record and the output is never longer than the input.
C23_RecordsIndependentInOrder ==
    JustProcessed
    => LET single == [i \in DOMAIN rawSessions |-> ProcessSessionData(<<rawSessions[i]>>)]
       IN /\ sessions = OneByOne(single, 1)
          /\ \A i \in DOMAIN rawSessions : ~single[i].threw /\ Len(single[i].value) <= 1
          /\ Len(sessions) <= Len(rawSessions)

\* C23 witness: a returned call whose first input record yields nothing on its
\* own and whose second yields one validated record, which is the whole result
C23_Witness ==
    /\ Processed /\ Len(rawSessions) = 2 /\ Len(sessions) = 1
    /\ ProcessSessionData(<<rawSessions[1]>>).value = <<>>
    /\ ProcessSessionData(<<rawSessions[2]>>).value = sessions
    /\ rawSessions[1].title # rawSessions[2].title

-----------------------------------------------------------------------------
(* Claims about the instants of the validated records, under Spec           *)

\* the raw record reaches the call of parseLasVegasTime and the call returns
ParseReturns(r) == r.malformed \in {"none", "title", "speakers"} /\ NoLabelEmpty(r)

IsIcsTimeForm(v) ==
    /\ Len(v) = 15
    /\ IsDigits(Slice(v, 1, 8)) /\ At(v, 9) = "T" /\ IsDigits(Slice(v, 10, 15))

\* the positions of the hyphens in s
Hyphens(s) == {k \in 1..Len(s) : At(s, k) = "-"}

\* the text between the first and the last hyphen of the middle part of a uid:
\* the date part of a fallback uid
UIDDatePart(uid) ==
    Slice(UIDMiddle(uid),
          Nth(Hyphens(UIDMiddle(uid)), 1) + 1,
          Nth(Hyphens(UIDMiddle(uid)), Cardinality(Hyphens(UIDMiddle(uid)))) - 1)

\* C25: every record that processSessionData emits has valid start and end
\* instants, also for labels with an out-of-range day, hour or minute number;
\* every DTSTART and DTEND value written by createCalendar has the form of 8
\* digits, 'T', 6 digits, and the date part of a fallback UID is 8 digits.
C25_EmittedInstantsValid ==
    /\ Processed
         => \A k \in DOMAIN sessions :
              /\ sessions[k].startTime.kind = "valid"
              /\ sessions[k].endTime.kind = "valid"
              /\ sessions[k].sessionId = ""
                   => /\ Len(UIDDatePart(sessions[k].uid)) = 8
                      /\ IsDigits(UIDDatePart(sessions[k].uid))
    /\ pc = "done"
         => \A k \in DOMAIN icsContent :
              /\ HasPrefix(icsContent[k], "DTSTART;TZID=America/Los_Angeles:")
                   => IsIcsTimeForm(Slice(icsContent[k],
                                          Len("DTSTART;TZID=America/Los_Angeles:") + 1,
                                          Len(icsContent[k])))
              /\ HasPrefix(icsContent[k], "DTEND;TZID=America/Los_Angeles:")
                   => IsIcsTimeForm(Slice(icsContent[k],
                                          Len("DTEND;TZID=America/Los_Angeles:") + 1,
                                          Len(icsContent[k])))

\* C25 for the records whose labels name an existing day, hour and minute:
\* their instants are valid and written in the form of 8 digits, 'T', 6 digits
C25_InRangeLabelsGiveValidInstants ==
    (/\ Processed
     /\ \A i \in DOMAIN rawSessions :
          rawSessions[i].date # "JUNE 31" /\ rawSessions[i].time # "25:00 - 26:00")
    => /\ \A k \in DOMAIN sessions :
            sessions[k].startTime.kind = "valid" /\ sessions[k].endTime.kind = "valid"
       /\ pc = "done"
            => \A k \in DOMAIN icsContent :
                 HasPrefix(icsContent[k], "DTSTART;TZID=America/Los_Angeles:")
                 => IsIcsTimeForm(Slice(icsContent[k],
                                        Len("DTSTART;TZID=America/Los_Angeles:") + 1,
                                        Len(icsContent[k])))

\* C26: for every emitted event with valid instants, start and end fall on the
\* same calendar date, the one that the date label names: neither the +12 hour
\* correction nor the +1 hour default for a missing end part moves the end to
\* another day. (The date of the label is compared where every raw record was
\* emitted, so that sessions[i] is the record of rawSessions[i].)
C26_StartAndEndOnLabelDate ==
    Processed
    => /\ \A k \in DOMAIN sessions :
            (sessions[k].startTime.kind = "valid" /\ sessions[k].endTime.kind = "valid")
            => sessions[k].endTime.ts \div 1440 = sessions[k].startTime.ts \div 1440
       /\ Len(sessions) = Len(rawSessions)
            => \A i \in DOMAIN rawSessions :
                 \A d \in {x \in DateRuleCases : x.label = rawSessions[i].date} :
                   sessions[i].startTime.kind = "valid"
                   => sessions[i].startTime.ts \div 1440 = DaysBefore(d.month) + d.day - 1

-----------------------------------------------------------------------------
(* Claims about the two forms of UID, under Spec                            *)

\* C27: within processSessionData a UID built from a source identifier never
\* equals a fallback UID: the identifier is a string of digits, so the UID is
\* 'identiverse-2025-event-<digits>@identiverse.com' without a further hyphen,
\* and it differs from the fallback UID of every other record of the result and
\* from the fallback UIDs of the title 'event' and its like on every start of
\* the result.
C27_SourceIdUIDNeverFallback ==
    JustProcessed
    => \A i \in DOMAIN sessions :
         sessions[i].sessionId # ""
         => /\ IsDigits(sessions[i].sessionId)
            /\ UIDMiddle(sessions[i].uid) = "event-" \o sessions[i].sessionId
            /\ \A j \in DOMAIN sessions :
                 sessions[j].sessionId = "" => sessions[j].uid # sessions[i].uid
            /\ \A t \in {"event", "event-", "Event", ""} :
                 \A st \in {NullDateTime} \cup {sessions[j].startTime : j \in DOMAIN sessions} :
                   GenerateUID(t, st, "") # sessions[i].uid

\* C27 witness: a returned call for a record titled 'event' without source
\* identifier and a record whose URL continues after the digits with the hash
\* of 'event'; their UIDs share the prefix 'identiverse-2025-event-20250603'
C27_Witness ==
    /\ Processed /\ Len(sessions) = 2
    /\ sessions[1].title = "event" /\ sessions[1].sessionId = ""
    /\ sessions[1].uid = "identiverse-2025-event-20250603-5c6729a@identiverse.com"
    /\ sessions[2].sessionId = "20250603"
    /\ sessions[2].uid = "identiverse-2025-event-20250603@identiverse.com"

-----------------------------------------------------------------------------
(* Claims about groupSessionsByDate and processAll, under Spec              *)

\* the yyyy-MM-dd of a session's start, from its yyyyMMdd
DateKeyOf(session) ==
    IF session.startTime.kind = "valid"
    THEN Slice(ToFormatDate(session.startTime), 1, 4) \o "-"
           \o Slice(ToFormatDate(session.startTime), 5, 6) \o "-"
           \o Slice(ToFormatDate(session.startTime), 7, 8)
    ELSE "Invalid DateTime"

\* C28: groupSessionsByDate partitions the processed sessions: every session
\* is in exactly one group, the one keyed by the yyyy-MM-dd of its start (as
\* often as it occurs in the list); the group sizes sum to the number of
\* sessions; each group is in non-decreasing order of start instant; and the
\* flat list sessions keeps the order produced by processSessionData, which is
\* the input order (compared by title and location where every raw record was
\* emitted).
C28_GroupsPartitionSessions ==
    JustProcessed
    => /\ \A i \in DOMAIN sessions : DateKeyOf(sessions[i]) \in DOMAIN groupedSessions
       /\ \A k \in DOMAIN groupedSessions :
            /\ Len(groupedSessions[k]) > 0
            /\ \A p \in DOMAIN groupedSessions[k] : DateKeyOf(groupedSessions[k][p]) = k
            /\ \A i \in DOMAIN sessions :
                 Count(groupedSessions[k], sessions[i])
                   = (IF DateKeyOf(sessions[i]) = k THEN Count(sessions, sessions[i]) ELSE 0)
            /\ \A p, q \in DOMAIN groupedSessions[k] :
                 p < q => ~DateTimeLess(groupedSessions[k][q].startTime,
                                        groupedSessions[k][p].startTime)
       /\ Cardinality({<<k, p>> \in (DOMAIN groupedSessions) \X (1..Len(sessions)) :
                         p <= Len(groupedSessions[k])}) = Len(sessions)
       /\ Len(sessions) = Len(rawSessions)
            => \A i \in DOMAIN rawSessions :
                 /\ sessions[i].title
                      = (IF rawSessions[i].title = "" THEN "Untitled Session"
                         ELSE rawSessions[i].title)
                 /\ sessions[i].location
                      = (IF rawSessions[i].location = "" THEN "TBD"
                         ELSE rawSessions[i].location)

\* C28 witness: a returned call for two records of 3 June of which the second
\* starts earlier; the one group has the second before the first, the flat
\* list has them in input order
C28_Witness ==
    /\ Processed /\ Len(rawSessions) = 2 /\ Len(sessions) = 2
    /\ sessions[1].title = rawSessions[1].title
    /\ DateTimeLess(sessions[2].startTime, sessions[1].startTime)
    /\ DOMAIN groupedSessions = {"2025-06-03"}
    /\ groupedSessions["2025-06-03"] = <<sessions[2], sessions[1]>>

-----------------------------------------------------------------------------
(* sessionDetailsExtractor.js: extractSessionDetails and                    *)
(* processBatchedSessionDetails                                             *)
(* A session of the grid has the fields title, date, time, location,        *)
(* description, speakers, type and detailsUrl, all strings but speakers,    *)
(* "" for an empty string. The detail page is the source of what            *)
(* page.evaluate returns; page.goto, saveScreenshot and page.evaluate may    *)
(* throw.                                                                   *)

\* most sessions handed to processBatchedSessionDetails
MaxBatchSessions == 3

\* largest batchSize
MaxBatchSize == 2

\* line 126: details.time.match(/\d+(?::\d+)?\s*(?:am|pm)/i) is not null: some
\* digit is followed, after optional white space, by am or pm in any case (a
\* ':digits' group that the match uses ends with such a digit itself)
TimeLooksValid(time) ==
    \E e \in 1..Len(time) :
      /\ IsDigit(At(time, e))
      /\ ToUpperCase(Slice(time, SpaceRunEnd(time, e) + 1, SpaceRunEnd(time, e) + 2))
           \in {"AM", "PM"}

\* lines 115-136: the enhanced session built from the page's details
MergeDetails(baseSessionData, details, isWorkshop) ==
    [baseSessionData EXCEPT
       !.title = IF details.sessionName # "" THEN details.sessionName ELSE @,
       !.location = IF details.location # "" THEN details.location ELSE @,
       !.description = IF details.description # "" THEN details.description ELSE @,
       !.speakers = IF Len(details.speakers) > 0 THEN details.speakers ELSE @,
       !.time = IF details.time # "" /\ details.time # @ /\ TimeLooksValid(details.time)
                THEN details.time ELSE @,
       !.type = IF isWorkshop /\ ~Includes(ToUpperCase(@), "WORKSHOP")
                THEN "WORKSHOP" ELSE @]

\* a variant of lines 13-142 whose catch returns an empty object
ExtractSessionDetails_CatchLosesBase(sessionUrl, baseSessionData, outcome) ==
    IF outcome.threw
    THEN [title |-> "", date |-> "", time |-> "", location |-> "", description |-> "",
          speakers |-> <<>>, type |-> "", detailsUrl |-> ""]
    ELSE MergeDetails(baseSessionData, outcome.details,
                      \/ Includes(sessionUrl, "workshop")
                      \/ Includes(ToUpperCase(baseSessionData.type), "WORKSHOP"))

\* lines 13-142; outcome tells whether the page operations of lines 18-112
\* threw and, if not, what page.evaluate returned. isWorkshop is line 28, where
\* toLowerCase().includes('workshop') is the test on the upper-cased type
ExtractSessionDetails(sessionUrl, baseSessionData, outcome) ==
    IF outcome.threw
    THEN baseSessionData                                           \* lines 137-141
    ELSE MergeDetails(baseSessionData, outcome.details,
                      \/ Includes(sessionUrl, "workshop")
                      \/ Includes(ToUpperCase(baseSessionData.type), "WORKSHOP"))

\* a variant of line 160 whose batches are one session short
SliceBatch_OneShort(list, i, batchSize) ==
    SubSeq(list, i + 1, IF i + batchSize - 1 < Len(list) THEN i + batchSize - 1 ELSE Len(list))

\* line 160: sessions.slice(i, i + batchSize), i counted from 0
SliceBatch(list, i, batchSize) ==
    SubSeq(list, i + 1, IF i + batchSize < Len(list) THEN i + batchSize ELSE Len(list))

\* a call of processBatchedSessionDetails(page, sessions, batchSize) at its
\* start, for a list of grid sessions without a details URL, with the URL of a
\* session page and with the URL of a workshop page. from is the i of the loop
\* of line 159, i and j are the batch and the session in it that come next
\* (from 0), outcomes records what happened to each session, longWaits the
\* batches after which the wait of line 188 took place
BatchInit ==
    /\ pc = "scrape" /\ rawSessions = <<>> /\ sessions = <<>> /\ icsContent = <<>>
    /\ groupedSessions = <<>>
    /\ \E n \in 0..MaxBatchSessions, b \in 1..MaxBatchSize :
         \E list \in [1..n ->
                        { [title |-> "Registration", date |-> "JUNE 3",
                           time |-> "9:30 AM - 11:20 AM", location |-> "Main Lobby",
                           description |-> "", speakers |-> <<>>, type |-> "GENERAL",
                           detailsUrl |-> ""],
                          [title |-> "Keynote", date |-> "JUNE 4",
                           time |-> "9:30 AM - 11:20 AM", location |-> "",
                           description |-> "Opening", speakers |-> <<"Jane Smith">>,
                           type |-> "KEYNOTE",
                           detailsUrl |-> "https://identiverse.com/idv25/session/?idvid=1234"],
                          [title |-> "Bootcamp", date |-> "JUNE 5",
                           time |-> "1:30 PM", location |-> "Forum 3",
                           description |-> "", speakers |-> <<>>, type |-> "MASTERCLASS",
                           detailsUrl |-> "https://identiverse.com/idv25/workshop/?idvid=77"] }] :
           call = [fn |-> "processBatchedSessionDetails", sessions |-> list, batchSize |-> b,
                   batches |-> <<>>, from |-> 0, i |-> 0, j |-> 0,
                   enhancedSessions |-> <<>>, outcomes |-> <<>>, longWaits |-> <<>>,
                   at |-> "split"]

\* lines 159-161: one pass of the loop that splits the sessions into batches
SplitBatch ==
    /\ call.at = "split" /\ call.from < Len(call.sessions)
    /\ call' = [call EXCEPT
                  !.batches = Append(@, SliceBatch(call.sessions, call.from, call.batchSize)),
                  !.from = @ + call.batchSize]
    /\ UNCHANGED <<pc, rawSessions, sessions, icsContent, groupedSessions>>

\* lines 159 and 164: the splitting loop ends and the loop over the batches begins
StartBatches ==
    /\ call.at = "split" /\ call.from >= Len(call.sessions)
    /\ call' = [call EXCEPT !.at = "batch"]
    /\ UNCHANGED <<pc, rawSessions, sessions, icsContent, groupedSessions>>

\* lines 169-175: a session without details URL is pushed as it is
PassThrough ==
    /\ call.at = "batch" /\ call.i < Len(call.batches)
    /\ call.j < Len(call.batches[call.i + 1])
    /\ call.batches[call.i + 1][call.j + 1].detailsUrl = ""
    /\ call' = [call EXCEPT
                  !.enhancedSessions = Append(@, call.batches[call.i + 1][call.j + 1]),
                  !.outcomes = Append(@, [threw |-> FALSE, skipped |-> TRUE]),
                  !.j = @ + 1]
    /\ UNCHANGED <<pc, rawSessions, sessions, icsContent, groupedSessions>>

\* lines 169-183: a session with details URL is pushed as extractSessionDetails
\* returns it, for a page operation that throws or a page with the details of
\* lines 35-112; then the wait of line 182
ExtractDetails ==
    /\ call.at = "batch" /\ call.i < Len(call.batches)
    /\ call.j < Len(call.batches[call.i + 1])
    /\ call.batches[call.i + 1][call.j + 1].detailsUrl # ""
    /\ \E outcome \in
           {[threw |-> TRUE, skipped |-> FALSE]}
             \cup {[threw |-> FALSE, skipped |-> FALSE, details |-> d] :
                     d \in { [sessionName |-> "", date |-> "", location |-> "", time |-> "",
                              description |-> "", speakers |-> <<>>],
                             [sessionName |-> "Opening Keynote", date |-> "June 3, 2025",
                              location |-> "Forum 12", time |-> "10:00 am - 11:00 am",
                              description |-> "Full abstract",
                              speakers |-> <<"Jane Smith", "John Doe">>],
                             [sessionName |-> "", date |-> "JUNE 9", location |-> "",
                              time |-> "TBD", description |-> "Full abstract",
                              speakers |-> <<>>],
                             [sessionName |-> "Opening Keynote", date |-> "", location |-> "",
                              time |-> "9:30 AM - 11:20 AM", description |-> "",
                              speakers |-> <<"Jane Smith">>],
                             [sessionName |-> "", date |-> "", location |-> "Forum 12",
                              time |-> "14:00 - 15:00", description |-> "",
                              speakers |-> <<>>],
                             [sessionName |-> "", date |-> "", location |-> "",
                              time |-> "2PM", description |-> "", speakers |-> <<>>] }} :
         call' = [call EXCEPT
                    !.enhancedSessions =
                       Append(@, ExtractSessionDetails(
                                   call.batches[call.i + 1][call.j + 1].detailsUrl,
                                   call.batches[call.i + 1][call.j + 1], outcome)),
                    !.outcomes = Append(@, outcome),
                    !.j = @ + 1]
    /\ UNCHANGED <<pc, rawSessions, sessions, icsContent, groupedSessions>>

\* lines 164 and 185-189: a batch is through; the longer wait if more batches follow
EndBatch ==
    /\ call.at = "batch" /\ call.i < Len(call.batches)
    /\ call.j = Len(call.batches[call.i + 1])
    /\ call' = [call EXCEPT
                  !.longWaits = IF call.i < Len(call.batches) - 1 THEN Append(@, call.i) ELSE @,
                  !.i = @ + 1,
                  !.j = 0]
    /\ UNCHANGED <<pc, rawSessions, sessions, icsContent, groupedSessions>>

\* lines 164 and 192: the loop over the batches ends, enhancedSessions is returned
ReturnEnhanced ==
    /\ call.at = "batch" /\ call.i >= Len(call.batches)
    /\ call' = [call EXCEPT !.at = "returned"]
    /\ UNCHANGED <<pc, rawSessions, sessions, icsContent, groupedSessions>>

BatchNext ==
    SplitBatch \/ StartBatches \/ PassThrough \/ ExtractDetails \/ EndBatch \/ ReturnEnhanced

SpecBatch == BatchInit /\ [][BatchNext]_vars

\* the awaited page operations and timers complete, so the call goes on while
\* it has a step to take
SpecBatchFair == SpecBatch /\ WF_vars(BatchNext)

-----------------------------------------------------------------------------
(* Claims about processBatchedSessionDetails, under SpecBatchFair, and about *)
(* extractSessionDetails, under SpecBatch                                   *)

BatchReturned == call.fn = "processBatchedSessionDetails" /\ call.at = "returned"

\* the list 0, 1, ..., n - 1
UpTo(n) == [m \in 1..n |-> m - 1]

\* what C29 says of a call that has returned: one session per input session in
\* input order (same date and details URL, which differ between the input
\* sessions), unchanged when it has no details URL or its extraction failed;
\* ceil(n / batchSize) batches, with the longer wait after each but the last
OnePerSessionInOrder ==
    /\ Len(call.enhancedSessions) = Len(call.sessions)
    /\ \A k \in DOMAIN call.sessions :
         /\ call.enhancedSessions[k].date = call.sessions[k].date
         /\ call.enhancedSessions[k].detailsUrl = call.sessions[k].detailsUrl
         /\ call.outcomes[k].skipped <=> call.sessions[k].detailsUrl = ""
         /\ (call.outcomes[k].skipped \/ call.outcomes[k].threw)
              => call.enhancedSessions[k] = call.sessions[k]
    /\ Len(call.batches) = (Len(call.sessions) + call.batchSize - 1) \div call.batchSize
    /\ call.longWaits = UpTo(IF Len(call.batches) = 0 THEN 0 ELSE Len(call.batches) - 1)

\* C29: for every session list and every batchSize >= 1,
\* processBatchedSessionDetails terminates and returns exactly one session per
\* input session, in input order, whether a session has no details URL or its
\* detail extraction fails; the longer wait happens after every batch except
\* the last.
C29_BatchesTerminateInOrder ==
    /\ <>BatchReturned
    /\ [](BatchReturned => OnePerSessionInOrder)
    /\ [](Len(call.enhancedSessions) <= Len(call.sessions))

\* C29 witness: a returned call for three sessions in batches of one, the
\* first without details URL, the second with a failed extraction, the third
\* with a successful one, and the longer wait after the first and the second batch
C29_Witness ==
    /\ BatchReturned
    /\ Len(call.sessions) = 3 /\ call.batchSize = 1
    /\ call.outcomes[1].skipped
    /\ call.outcomes[2].threw
    /\ ~call.outcomes[3].skipped /\ ~call.outcomes[3].threw
    /\ call.enhancedSessions[3] # call.sessions[3]
    /\ call.longWaits = <<0, 1>>

\* time labels of detail pages, with whether they hold a digit group followed
\* by am or pm
DetailTimeCases ==
    { [text |-> "", amPm |-> FALSE],
      [text |-> "10:00 am - 11:00 am", amPm |-> TRUE],
      [text |-> "TBD", amPm |-> FALSE],
      [text |-> "9:30 AM - 11:20 AM", amPm |-> TRUE],
      [text |-> "14:00 - 15:00", amPm |-> FALSE],
      [text |-> "2PM", amPm |-> TRUE] }

\* the enhanced session keeps the base value of a field or has the extracted
\* one, and has the extracted one exactly when that may replace
KeptOrReplaced(enhanced, base, extracted, mayReplace) ==
    /\ enhanced = (IF mayReplace THEN extracted ELSE base)
    /\ enhanced # base => mayReplace

\* C30: extractSessionDetails never loses base data: when a page operation
\* throws it returns the base session unchanged; on success title, location,
\* description and speakers are replaced only by a non-empty extracted value,
\* the time label only by an extracted time that differs and holds a digit
\* group followed by am/pm; date and detailsUrl are always those of the base
\* session.
C30_BaseDataNeverLost ==
    call.fn = "processBatchedSessionDetails"
    => \A k \in DOMAIN call.enhancedSessions :
         /\ call.enhancedSessions[k].date = call.sessions[k].date
         /\ call.enhancedSessions[k].detailsUrl = call.sessions[k].detailsUrl
         /\ call.outcomes[k].threw => call.enhancedSessions[k] = call.sessions[k]
         /\ (~call.outcomes[k].threw /\ ~call.outcomes[k].skipped)
              => /\ KeptOrReplaced(call.enhancedSessions[k].title, call.sessions[k].title,
                                   call.outcomes[k].details.sessionName,
                                   call.outcomes[k].details.sessionName # "")
                 /\ KeptOrReplaced(call.enhancedSessions[k].location,
                                   call.sessions[k].location,
                                   call.outcomes[k].details.location,
                                   call.outcomes[k].details.location # "")
                 /\ KeptOrReplaced(call.enhancedSessions[k].description,
                                   call.sessions[k].description,
                                   call.outcomes[k].details.description,
                                   call.outcomes[k].details.description # "")
                 /\ KeptOrReplaced(call.enhancedSessions[k].speakers,
                                   call.sessions[k].speakers,
                                   call.outcomes[k].details.speakers,
                                   call.outcomes[k].details.speakers # <<>>)
                 /\ \E c \in DetailTimeCases : c.text = call.outcomes[k].details.time
                 /\ \A c \in DetailTimeCases :
                      c.text = call.outcomes[k].details.time
                      => KeptOrReplaced(call.enhancedSessions[k].time, call.sessions[k].time,
                                        c.text,
                                        c.amPm /\ c.text # call.sessions[k].time)

\* C30 witness: two sessions with the same base time label of which the first
\* extraction threw, leaving the base session, and the second found a title,
\* location, description, speakers and a different am/pm time, all taken over
\* next to the base date and details URL
C30_Witness ==
    /\ call.fn = "processBatchedSessionDetails" /\ Len(call.enhancedSessions) = 2
    /\ call.outcomes[1].threw /\ call.enhancedSessions[1] = call.sessions[1]
    /\ ~call.outcomes[2].threw /\ ~call.outcomes[2].skipped
    /\ call.sessions[2].title = "Keynote"
    /\ call.enhancedSessions[2]
         = [title |-> "Opening Keynote", date |-> "JUNE 4", time |-> "10:00 am - 11:00 am",
            location |-> "Forum 12", description |-> "Full abstract",
            speakers |-> <<"Jane Smith", "John Doe">>, type |-> "KEYNOTE",
            detailsUrl |-> "https://identiverse.com/idv25/session/?idvid=1234"]

=============================================================================
